---- MODULE Spec2Model ----
(***************************************************************************)
(* Model of the route planner of Map-Editor:                               *)
(*   client/src/lib/navigation.ts   (geometry, buildGraph, projection,     *)
(*                                   dijkstra, findPath's graph)           *)
(*   client/src/pages/home.tsx      (conflict estimator, A_star_time_aware,*)
(*                                   planAllVehicleRoutes)                 *)
(*                                                                         *)
(* Numbers.  Coordinates are fixed-point integers: one unit is 1/CoordRes  *)
(* of the last digit that latLngToString keeps (toFixed(8)), so that two   *)
(* different coordinates can share a node key and a parsed key need not be *)
(* the coordinate it was printed from.  Distances are the planar distance  *)
(* of two coordinates rounded up to a whole unit (a metric; the Haversine  *)
(* formula of the source is a metric too, and the editor works in a small  *)
(* rectangle).  Times are integer ticks, TimeScale ticks per second, so    *)
(* that distance / speed and the half safety window (7.5 s) are exact.     *)
(* JavaScript's Map is an insertion-ordered sequence of entries.           *)
(***************************************************************************)
EXTENDS Integers, Sequences, FiniteSets, TLC

\* ------------------------------------------------------------------ bounds
\* Coordinate units per 1e-8 degree (the resolution below the node key).
CoordRes == 2
\* The largest number of vehicle requests of one planning call.
MaxVehicles == 2
\* The slower of the two positive vehicle speeds, in units per second; the
\* faster one is twice it.
BaseSpeed == 10

\* ------------------------------------------------------- program constants
\* arePointsEqual's default tolerance 1e-7, in units of 1e-8 degree.
ToleranceE8 == 10
HUGE_PENALTY == 1000000000
SAFETY_TIME_WINDOW_NODE_SECONDS == 15
NODE_CLEARANCE_TIME_SECONDS == 10
INCONVENIENCE_PENALTY_SECONDS == 30
\* JavaScript's Infinity: larger than every number the model computes.
Infinity == 2147483647

\* ------------------------------------------------------------- arithmetic
Abs(x) == IF x < 0 THEN -x ELSE x

Min(a, b) == IF a < b THEN a ELSE b

Max(a, b) == IF a > b THEN a ELSE b

\* n / d rounded to the nearest integer, halves up (d # 0).
RoundDiv(n, d) ==
    IF d < 0 THEN (2 * (-n) + (-d)) \div (2 * (-d))
    ELSE (2 * n + d) \div (2 * d)

RECURSIVE CeilSqrtBetween(_, _, _)
\* lo * lo < x <= hi * hi.
CeilSqrtBetween(x, lo, hi) ==
    IF hi - lo <= 1 THEN hi
    ELSE LET mid == (lo + hi) \div 2
         IN  IF mid * mid >= x THEN CeilSqrtBetween(x, lo, mid)
             ELSE CeilSqrtBetween(x, mid, hi)

\* The least r with r * r >= x (x below 2^31).
CeilSqrt(x) == IF x <= 0 THEN 0 ELSE CeilSqrtBetween(x, 0, Min(x, 46340))

\* ------------------------------------------------- navigation.ts utilities
\* A LatLng is [lat, lng]; a node key (the string "lat,lng") is <<lat, lng>>
\* in units of 1e-8 degree.
Tolerance == ToleranceE8 * CoordRes

\* Number.toFixed(8) of one coordinate: the nearest multiple of 1e-8, halves up.
toFixed8(c) == RoundDiv(c, CoordRes)

latLngToString(point) == <<toFixed8(point.lat), toFixed8(point.lng)>>

stringToLatLng(str) == [lat |-> str[1] * CoordRes, lng |-> str[2] * CoordRes]

arePointsEqual(p1, p2) ==
    Abs(p1.lat - p2.lat) < Tolerance /\ Abs(p1.lng - p2.lng) < Tolerance

calculateDistance(point1, point2) ==
    CeilSqrt((point2.lat - point1.lat) * (point2.lat - point1.lat)
             + (point2.lng - point1.lng) * (point2.lng - point1.lng))

\* Comparison of two node keys as strings (same number of integer digits).
StrLess(a, b) == a[1] < b[1] \/ (a[1] = b[1] /\ a[2] < b[2])

projectPointOnLineSegment(A, B, C) ==
    LET ABx == B.lat - A.lat
        ABy == B.lng - A.lng
        ACx == C.lat - A.lat
        ACy == C.lng - A.lng
        dotAB_AB == ABx * ABx + ABy * ABy
        dotAB_AC == ABx * ACx + ABy * ACy
    IN  IF dotAB_AB = 0 THEN A
        ELSE IF dotAB_AC <= 0 THEN A                      \* t clamped to 0
        ELSE IF dotAB_AC >= dotAB_AB THEN B               \* t clamped to 1
        ELSE [lat |-> A.lat + RoundDiv(dotAB_AC * ABx, dotAB_AB),
              lng |-> A.lng + RoundDiv(dotAB_AC * ABy, dotAB_AB)]

\* 0 <= num / den <= 1.  The source accepts [-1e-5, 1 + 1e-5]; for the
\* denominators of the model (below 1e5) the two tests agree.
InUnitInterval(num, den) ==
    IF den > 0 THEN 0 <= num /\ num <= den ELSE den <= num /\ num <= 0

\* The intersection of segments AB and CD: <<>> (null) or <<point>>.
findIntersection(A, B, C, D) ==
    LET p0_x == A.lng
        p0_y == A.lat
        p2_x == C.lng
        p2_y == C.lat
        s1_x == B.lng - p0_x
        s1_y == B.lat - p0_y
        s2_x == D.lng - p2_x
        s2_y == D.lat - p2_y
        denominator == (-s2_x) * s1_y + s1_x * s2_y
        sNum == (-s1_y) * (p0_x - p2_x) + s1_x * (p0_y - p2_y)
        tNum == s2_x * (p0_y - p2_y) - s2_y * (p0_x - p2_x)
    IN  IF denominator = 0 THEN <<>>
        ELSE IF InUnitInterval(sNum, denominator) /\ InUnitInterval(tNum, denominator)
             THEN <<[lat |-> p0_y + RoundDiv(tNum * s1_y, denominator),
                     lng |-> p0_x + RoundDiv(tNum * s1_x, denominator)]>>
             ELSE <<>>

RECURSIVE snapToVertexFrom(_, _, _)
snapToVertexFrom(point, vertices, i) ==
    IF i > Len(vertices) THEN point
    ELSE IF arePointsEqual(point, vertices[i]) THEN vertices[i]
    ELSE snapToVertexFrom(point, vertices, i + 1)

snapToVertex(point, vertices) == snapToVertexFrom(point, vertices, 1)

\* ----------------------------------------- Map<string, Map<string, number>>
\* graph: sequence of [key, edges], edges: sequence of [to, w], both in
\* insertion order, keys unique.
RECURSIVE IndexOfKey(_, _, _)
IndexOfKey(g, k, i) ==
    IF i > Len(g) THEN 0 ELSE IF g[i].key = k THEN i ELSE IndexOfKey(g, k, i + 1)

RECURSIVE IndexOfEdge(_, _, _)
IndexOfEdge(edges, k, i) ==
    IF i > Len(edges) THEN 0
    ELSE IF edges[i].to = k THEN i ELSE IndexOfEdge(edges, k, i + 1)

GraphHas(g, k) == IndexOfKey(g, k, 1) # 0

GraphKeys(g) == {g[i].key : i \in 1..Len(g)}

\* graph.get(k), for a key of the graph.
GraphGet(g, k) == g[IndexOfKey(g, k, 1)].edges

EdgesHas(edges, k) == IndexOfEdge(edges, k, 1) # 0

HasEdge(g, u, v) == GraphHas(g, u) /\ EdgesHas(GraphGet(g, u), v)

\* graph.get(u).get(v), for an edge of the graph.
Weight(g, u, v) == GraphGet(g, u)[IndexOfEdge(GraphGet(g, u), v, 1)].w

\* if (!graph.has(k)) graph.set(k, new Map())
EnsureNode(g, k) == IF GraphHas(g, k) THEN g ELSE Append(g, [key |-> k, edges |-> <<>>])

\* edges.set(v, w): an existing entry keeps its place.
EdgesSet(edges, v, w) ==
    LET i == IndexOfEdge(edges, v, 1)
    IN  IF i = 0 THEN Append(edges, [to |-> v, w |-> w])
        ELSE [edges EXCEPT ![i] = [to |-> v, w |-> w]]

EdgesDelete(edges, v) ==
    LET i == IndexOfEdge(edges, v, 1)
    IN  IF i = 0 THEN edges
        ELSE SubSeq(edges, 1, i - 1) \o SubSeq(edges, i + 1, Len(edges))

\* graph.get(u)!.set(v, w), for a key u of the graph.
SetEdge(g, u, v, w) ==
    LET i == IndexOfKey(g, u, 1)
    IN  [g EXCEPT ![i].edges = EdgesSet(g[i].edges, v, w)]

\* graph.get(u)?.delete(v)
DeleteEdge(g, u, v) ==
    LET i == IndexOfKey(g, u, 1)
    IN  IF i = 0 THEN g ELSE [g EXCEPT ![i].edges = EdgesDelete(g[i].edges, v)]

\* ------------------------------------------------------------- buildGraph
\* A MapFeature is [id, type, path, isBlocked]; path is a sequence of LatLng,
\* the empty sequence standing for null as well.
RECURSIVE uniquePathFrom(_, _, _)
uniquePathFrom(path, i, acc) ==
    IF i > Len(path) THEN acc
    ELSE uniquePathFrom(path, i + 1,
            IF ~arePointsEqual(path[i], path[i - 1]) THEN Append(acc, path[i]) ELSE acc)

\* Step 1, lines 120-128: consecutive duplicates dropped (each point is
\* compared with the point before it in the road's own path).
uniquePath(path) == uniquePathFrom(path, 2, <<path[1]>>)

\* EligibleRoad without the isBlocked test.
EligibleRoadIgnoringBlocked(road) ==
    ~(road.type # "road" \/ Len(road.path) < 2)

\* EligibleRoad without the type test.
EligibleRoadAnyType(road) ==
    ~(Len(road.path) < 2 \/ road.isBlocked)

\* A road feature the graph is built from (line 117).
EligibleRoad(road) ==
    ~(road.type # "road" \/ Len(road.path) < 2 \/ road.isBlocked)

\* Step 1, lines 116-135: <<>> for a skipped feature, else <<[path, isLoop]>>.
processRoad(road) ==
    IF ~EligibleRoad(road) THEN <<>>
    ELSE LET u == uniquePath(road.path)
         IN  IF Len(u) < 2 THEN <<>>
             ELSE LET isLoop == Len(u) > 2 /\ arePointsEqual(u[1], u[Len(u)])
                  IN  <<[path |-> IF isLoop THEN SubSeq(u, 1, Len(u) - 1) ELSE u,
                         isLoop |-> isLoop]>>

RECURSIVE processedRoadsFrom(_, _)
processedRoadsFrom(roads, i) ==
    IF i > Len(roads) THEN <<>>
    ELSE processRoad(roads[i]) \o processedRoadsFrom(roads, i + 1)

processedRoads(roads) == processedRoadsFrom(roads, 1)

\* Segment j (0-based) of a processed road: path[j], path[(j + 1) % length].
SegmentOf(r, j) == <<r.path[j + 1], r.path[((j + 1) % Len(r.path)) + 1]>>

\* "if (j === path.length - 1 && !isLoop) continue"
SegmentSkipped(r, j) == j = Len(r.path) - 1 /\ ~r.isLoop

\* Lines 143-151: one undirected edge between two polyline vertices.
ConnectVertices(g, p1, p2) ==
    LET p1Str == latLngToString(p1)
        p2Str == latLngToString(p2)
        g2 == EnsureNode(EnsureNode(g, p1Str), p2Str)
        dist == calculateDistance(p1, p2)
    IN  SetEdge(SetEdge(g2, p1Str, p2Str, dist), p2Str, p1Str, dist)

RECURSIVE seedRoadFrom(_, _, _)
seedRoadFrom(g, r, i) ==
    IF i >= Len(r.path) THEN g
    ELSE seedRoadFrom(
            IF SegmentSkipped(r, i) THEN g
            ELSE ConnectVertices(g, SegmentOf(r, i)[1], SegmentOf(r, i)[2]),
            r, i + 1)

RECURSIVE seedRoadsFrom(_, _, _)
seedRoadsFrom(g, rs, i) ==
    IF i > Len(rs) THEN g ELSE seedRoadsFrom(seedRoadFrom(g, rs[i], 0), rs, i + 1)

\* Step 1, lines 114-153: the graph of the original road segments.
seedGraph(rs) == seedRoadsFrom(<<>>, rs, 1)

\* The pairs <<j, k>>, j in 0..n-1, k in 0..m-1, in the order of two nested loops.
IndexPairs(n, m) == [x \in 1..(n * m) |-> <<(x - 1) \div m, (x - 1) % m>>]

\* Lines 161-172: the segment pairs of one road tested for self-intersection.
SelfPairs(r) ==
    LET n == Len(r.path)
        Tested(p) == /\ ~SegmentSkipped(r, p[1])
                     /\ p[2] >= p[1] + 2
                     /\ ~(r.isLoop /\ p[1] = 0 /\ p[2] = n - 1)
                     /\ ~SegmentSkipped(r, p[2])
    IN  SelectSeq(IndexPairs(n, n), Tested)

\* Lines 186-194: the segment pairs of two roads tested for intersection.
CrossPairs(r1, r2) ==
    LET Tested(p) == ~SegmentSkipped(r1, p[1]) /\ ~SegmentSkipped(r2, p[2])
    IN  SelectSeq(IndexPairs(Len(r1.path), Len(r2.path)), Tested)

RECURSIVE collectIntersections(_, _, _, _, _)
collectIntersections(r1, r2, vertices, pairs, i) ==
    IF i > Len(pairs) THEN <<>>
    ELSE LET s1 == SegmentOf(r1, pairs[i][1])
             s2 == SegmentOf(r2, pairs[i][2])
             intersection == findIntersection(s1[1], s1[2], s2[1], s2[2])
         IN  (IF intersection = <<>> THEN <<>>
              ELSE <<[point |-> snapToVertex(intersection[1], vertices),
                      segments |-> <<s1, s2>>]>>)
             \o collectIntersections(r1, r2, vertices, pairs, i + 1)

RECURSIVE crossIntersectionsFrom(_, _, _)
crossIntersectionsFrom(rs, i, l) ==
    IF l > Len(rs) THEN <<>>
    ELSE collectIntersections(rs[i], rs[l], rs[i].path \o rs[l].path,
                              CrossPairs(rs[i], rs[l]), 1)
         \o crossIntersectionsFrom(rs, i, l + 1)

RECURSIVE intersectionsFrom(_, _)
intersectionsFrom(rs, i) ==
    IF i > Len(rs) THEN <<>>
    ELSE collectIntersections(rs[i], rs[i], rs[i].path, SelfPairs(rs[i]), 1)
         \o crossIntersectionsFrom(rs, i, i + 1)
         \o intersectionsFrom(rs, i + 1)

\* Step 2, lines 155-204: intersectionPointsToAdd, in collection order.
intersectionPointsToAdd(rs) == intersectionsFrom(rs, 1)

\* Lines 213-234: one segment of an intersection record split at the point.
splitSegment(g, intersectionPoint, seg) ==
    LET intStr == latLngToString(intersectionPoint)
        segAStr == latLngToString(seg[1])
        segBStr == latLngToString(seg[2])
        distAInt == calculateDistance(seg[1], intersectionPoint)
        distBInt == calculateDistance(seg[2], intersectionPoint)
    IN  IF /\ ~arePointsEqual(intersectionPoint, seg[1])
           /\ ~arePointsEqual(intersectionPoint, seg[2])
           /\ HasEdge(g, segAStr, segBStr)
        THEN SetEdge(SetEdge(SetEdge(SetEdge(
                 DeleteEdge(DeleteEdge(g, segAStr, segBStr), segBStr, segAStr),
                 segAStr, intStr, distAInt), intStr, segAStr, distAInt),
                 segBStr, intStr, distBInt), intStr, segBStr, distBInt)
        ELSE g

\* Lines 207-251: one intersection record materialised.
materializeIntersection(g, rec) ==
    splitSegment(
        splitSegment(EnsureNode(g, latLngToString(rec.point)), rec.point, rec.segments[1]),
        rec.point, rec.segments[2])

RECURSIVE materializeFrom(_, _, _)
materializeFrom(g, recs, i) ==
    IF i > Len(recs) THEN g
    ELSE materializeFrom(materializeIntersection(g, recs[i]), recs, i + 1)

buildGraph(roads) ==
    LET rs == processedRoads(roads)
    IN  materializeFrom(seedGraph(rs), intersectionPointsToAdd(rs), 1)

\* ------------------------------------------------- findNearestPointOnGraph
\* The scan's locals: [minDistance, nearestResult, visitedSegments];
\* nearestResult is <<>> (null) or <<NearestPointInfo>>.
\* A variant that lets a segment replace a candidate at the same distance.
scanEdgeOnTie(st, target, nodeA_str, nodeB_str) ==
    LET segKey1 == <<nodeA_str, nodeB_str>>
        segKey2 == <<nodeB_str, nodeA_str>>
    IN  IF segKey1 \in st.visitedSegments \/ segKey2 \in st.visitedSegments
           \/ nodeA_str = nodeB_str
        THEN st
        ELSE LET nodeA_latlng == stringToLatLng(nodeA_str)
                 nodeB_latlng == stringToLatLng(nodeB_str)
                 projectedPoint == projectPointOnLineSegment(nodeA_latlng, nodeB_latlng, target)
                 distToProjected == calculateDistance(target, projectedPoint)
                 visited == st.visitedSegments \cup {segKey1}
             IN  IF distToProjected <= st.minDistance
                 THEN [minDistance |-> distToProjected,
                       nearestResult |->
                           <<IF arePointsEqual(projectedPoint, nodeA_latlng)
                             THEN [point |-> nodeA_latlng, pointStr |-> nodeA_str,
                                   segmentNodes |-> <<nodeA_str, nodeB_str>>,
                                   onExistingNode |-> TRUE]
                             ELSE IF arePointsEqual(projectedPoint, nodeB_latlng)
                             THEN [point |-> nodeB_latlng, pointStr |-> nodeB_str,
                                   segmentNodes |-> <<nodeA_str, nodeB_str>>,
                                   onExistingNode |-> TRUE]
                             ELSE [point |-> projectedPoint,
                                   pointStr |-> latLngToString(projectedPoint),
                                   segmentNodes |-> <<nodeA_str, nodeB_str>>,
                                   onExistingNode |-> FALSE]>>,
                       visitedSegments |-> visited]
                 ELSE [st EXCEPT !.visitedSegments = visited]

\* Lines 288-323: one edge nodeA -> nodeB of the scan.
scanEdge(st, target, nodeA_str, nodeB_str) ==
    LET segKey1 == <<nodeA_str, nodeB_str>>
        segKey2 == <<nodeB_str, nodeA_str>>
    IN  IF segKey1 \in st.visitedSegments \/ segKey2 \in st.visitedSegments
           \/ nodeA_str = nodeB_str
        THEN st
        ELSE LET nodeA_latlng == stringToLatLng(nodeA_str)
                 nodeB_latlng == stringToLatLng(nodeB_str)
                 projectedPoint == projectPointOnLineSegment(nodeA_latlng, nodeB_latlng, target)
                 distToProjected == calculateDistance(target, projectedPoint)
                 visited == st.visitedSegments \cup {segKey1}
             IN  IF distToProjected < st.minDistance
                 THEN [minDistance |-> distToProjected,
                       nearestResult |->
                           <<IF arePointsEqual(projectedPoint, nodeA_latlng)
                             THEN [point |-> nodeA_latlng, pointStr |-> nodeA_str,
                                   segmentNodes |-> <<nodeA_str, nodeB_str>>,
                                   onExistingNode |-> TRUE]
                             ELSE IF arePointsEqual(projectedPoint, nodeB_latlng)
                             THEN [point |-> nodeB_latlng, pointStr |-> nodeB_str,
                                   segmentNodes |-> <<nodeA_str, nodeB_str>>,
                                   onExistingNode |-> TRUE]
                             ELSE [point |-> projectedPoint,
                                   pointStr |-> latLngToString(projectedPoint),
                                   segmentNodes |-> <<nodeA_str, nodeB_str>>,
                                   onExistingNode |-> FALSE]>>,
                       visitedSegments |-> visited]
                 ELSE [st EXCEPT !.visitedSegments = visited]

RECURSIVE scanEdgesFrom(_, _, _, _, _)
scanEdgesFrom(st, target, nodeA_str, edges, i) ==
    IF i > Len(edges) THEN st
    ELSE scanEdgesFrom(scanEdge(st, target, nodeA_str, edges[i].to),
                       target, nodeA_str, edges, i + 1)

\* Lines 274-323: one node of the scan, then its edges.
scanNode(st, target, entry) ==
    LET nodeA_latlng == stringToLatLng(entry.key)
        distToNodeA == calculateDistance(target, nodeA_latlng)
        st1 == IF distToNodeA < st.minDistance
               THEN [st EXCEPT !.minDistance = distToNodeA,
                               !.nearestResult =
                                   <<[point |-> nodeA_latlng, pointStr |-> entry.key,
                                      segmentNodes |-> <<entry.key, entry.key>>,
                                      onExistingNode |-> TRUE]>>]
               ELSE st
    IN  scanEdgesFrom(st1, target, entry.key, entry.edges, 1)

RECURSIVE scanNodesFrom(_, _, _, _)
scanNodesFrom(st, target, g, i) ==
    IF i > Len(g) THEN st
    ELSE scanNodesFrom(scanNode(st, target, g[i]), target, g, i + 1)

\* <<>> (null) or <<NearestPointInfo>>.
findNearestPointOnGraph(target, g) ==
    scanNodesFrom([minDistance |-> Infinity, nearestResult |-> <<>>,
                   visitedSegments |-> {}], target, g, 1).nearestResult

\* --------------------------------------------------------- addPointToGraph
\* A variant that leaves the projected edge in place beside its two halves.
addPointToGraphKeepingEdge(g, nearestInfo) ==
    IF nearestInfo.onExistingNode THEN g
    ELSE IF GraphHas(g, nearestInfo.pointStr) THEN g
    ELSE LET projectedPointStr == nearestInfo.pointStr
             segNodeA_str == nearestInfo.segmentNodes[1]
             segNodeB_str == nearestInfo.segmentNodes[2]
             g1 == Append(g, [key |-> projectedPointStr, edges |-> <<>>])
             distProjToSegA == calculateDistance(nearestInfo.point, stringToLatLng(segNodeA_str))
             distProjToSegB == calculateDistance(nearestInfo.point, stringToLatLng(segNodeB_str))
         IN  SetEdge(SetEdge(SetEdge(SetEdge(g1,
                 projectedPointStr, segNodeA_str, distProjToSegA),
                 segNodeA_str, projectedPointStr, distProjToSegA),
                 projectedPointStr, segNodeB_str, distProjToSegB),
                 segNodeB_str, projectedPointStr, distProjToSegB)

\* Lines 329-375: the graph after the call.
addPointToGraph(g, nearestInfo) ==
    IF nearestInfo.onExistingNode THEN g
    ELSE IF GraphHas(g, nearestInfo.pointStr) THEN g
    ELSE LET projectedPointStr == nearestInfo.pointStr
             segNodeA_str == nearestInfo.segmentNodes[1]
             segNodeB_str == nearestInfo.segmentNodes[2]
             g1 == Append(g, [key |-> projectedPointStr, edges |-> <<>>])
             g2 == DeleteEdge(DeleteEdge(g1, segNodeA_str, segNodeB_str),
                              segNodeB_str, segNodeA_str)
             distProjToSegA == calculateDistance(nearestInfo.point, stringToLatLng(segNodeA_str))
             distProjToSegB == calculateDistance(nearestInfo.point, stringToLatLng(segNodeB_str))
         IN  SetEdge(SetEdge(SetEdge(SetEdge(g2,
                 projectedPointStr, segNodeA_str, distProjToSegA),
                 segNodeA_str, projectedPointStr, distProjToSegA),
                 projectedPointStr, segNodeB_str, distProjToSegB),
                 segNodeB_str, projectedPointStr, distProjToSegB)

\* The string addPointToGraph returns: the effective node of the point.
effectiveNodeStr(nearestInfo) == nearestInfo.pointStr

\* ------------------------------------------------------------------ time
\* Ticks per second: distance / speed is a whole number of ticks for both
\* positive speeds, and so is half the node safety window.
TimeScale == 4 * BaseSpeed

Seconds(n) == n * TimeScale

\* distance / speed, in ticks (speed > 0).
TravelTime(distance, speed) == (distance * TimeScale) \div speed

\* SAFETY_TIME_WINDOW_NODE_SECONDS / 2
HalfSafetyWindow == (SAFETY_TIME_WINDOW_NODE_SECONDS * TimeScale) \div 2

\* ------------------------------------------------------ reservation table
\* GlobalReservations: two maps from key to list, as functions on the keys set.
SegmentKey(a, b) == IF StrLess(a, b) THEN <<a, b>> ELSE <<b, a>>

MapGetList(m, k) == IF k \in DOMAIN m THEN m[k] ELSE <<>>

\* A variant that starts the list of k afresh on every push.
MapPushReplacing(m, k, x) == [j \in DOMAIN m \cup {k} |-> IF j = k THEN <<x>> ELSE m[j]]

\* if (!m.has(k)) m.set(k, []); m.get(k).push(x)
MapPush(m, k, x) ==
    IF k \in DOMAIN m THEN [m EXCEPT ![k] = Append(m[k], x)]
    ELSE [j \in DOMAIN m \cup {k} |-> IF j = k THEN <<x>> ELSE m[j]]

EmptyMap == [j \in {} |-> <<>>]

\* ---------------------------------------------------------------- heuristic
\* heuristic with 0 in place of Infinity for a vehicle that cannot move.
heuristicZeroAtRest(nodeLatlng, goalLatlng, vehicleSpeed) ==
    IF vehicleSpeed <= 0 THEN 0
    ELSE TravelTime(calculateDistance(nodeLatlng, goalLatlng), vehicleSpeed)

\* heuristic returning the distance without dividing it by the speed.
heuristicInMetres(nodeLatlng, goalLatlng, vehicleSpeed) ==
    IF vehicleSpeed <= 0 THEN Infinity
    ELSE Seconds(calculateDistance(nodeLatlng, goalLatlng))

heuristic(nodeLatlng, goalLatlng, vehicleSpeed) ==
    IF vehicleSpeed <= 0 THEN Infinity
    ELSE TravelTime(calculateDistance(nodeLatlng, goalLatlng), vehicleSpeed)

\* ------------------------------ calculateConflictPenalty_WithEstimatedDelay
\* segmentDelay without the test of line 516 that skips the vehicle's own
\* reservations.
segmentDelayCountingOwn(maxDelay, res, list, u_str, v_str, frontEnters, tailExits, currentVehicleId) ==
    LET segOverlap_startTime == Max(frontEnters, res.startTime)
        segOverlap_endTime == Min(tailExits, res.endTime)
        currentWait == IF res.endTime > frontEnters THEN res.endTime - frontEnters ELSE 0
        headOn == res.nodeA_str = v_str /\ res.nodeB_str = u_str /\ currentWait > 0
        m1 == IF headOn
              THEN Max(maxDelay, currentWait + Seconds(HUGE_PENALTY \div 1000))
              ELSE maxDelay
    IN  IF segOverlap_startTime < segOverlap_endTime THEN Max(m1, currentWait)
        ELSE maxDelay

\* segmentDelay without the extra term of lines 538-551 for a reservation
\* recorded in the opposite direction.
segmentDelayWithoutHeadOn(maxDelay, res, list, u_str, v_str, frontEnters, tailExits, currentVehicleId) ==
    IF res.vehicleId = currentVehicleId THEN maxDelay
    ELSE LET segOverlap_startTime == Max(frontEnters, res.startTime)
             segOverlap_endTime == Min(tailExits, res.endTime)
             currentWait == IF res.endTime > frontEnters THEN res.endTime - frontEnters ELSE 0
         IN  IF segOverlap_startTime < segOverlap_endTime THEN Max(maxDelay, currentWait)
             ELSE maxDelay

\* Lines 515-553: one segment reservation folded into maxEstimatedDelayThisStep.
segmentDelay(maxDelay, res, list, u_str, v_str, frontEnters, tailExits, currentVehicleId) ==
    IF res.vehicleId = currentVehicleId THEN maxDelay
    ELSE LET segOverlap_startTime == Max(frontEnters, res.startTime)
             segOverlap_endTime == Min(tailExits, res.endTime)
             currentWait == IF res.endTime > frontEnters THEN res.endTime - frontEnters ELSE 0
             found == \E i \in 1..Len(list) :
                         /\ list[i].vehicleId = res.vehicleId
                         /\ \/ (list[i].nodeA_str = v_str /\ list[i].nodeB_str = u_str)
                            \/ (list[i].nodeA_str = u_str /\ list[i].nodeB_str = v_str)
             headOn == found /\ res.nodeA_str = v_str /\ res.nodeB_str = u_str /\ currentWait > 0
             m1 == IF headOn
                   THEN Max(maxDelay, currentWait + Seconds(HUGE_PENALTY \div 1000))
                   ELSE maxDelay
         IN  IF segOverlap_startTime < segOverlap_endTime THEN Max(m1, currentWait)
             ELSE maxDelay

RECURSIVE segmentDelaysFrom(_, _, _, _, _, _, _, _)
segmentDelaysFrom(maxDelay, list, i, u_str, v_str, frontEnters, tailExits, currentVehicleId) ==
    IF i > Len(list) THEN maxDelay
    ELSE segmentDelaysFrom(
            segmentDelay(maxDelay, list[i], list, u_str, v_str, frontEnters, tailExits,
                         currentVehicleId),
            list, i + 1, u_str, v_str, frontEnters, tailExits, currentVehicleId)

\* nodeDelay waiting for the reservation's entry time in place of its exit time.
nodeDelayUntilEntry(maxDelay, res, arrival, needsClearanceUntil, currentVehicleId) ==
    IF res.vehicleId = currentVehicleId THEN maxDelay
    ELSE LET nodeOverlap_startTime == Max(arrival, res.entryTime)
             nodeOverlap_endTime == Min(needsClearanceUntil, res.exitTime)
             currentWait == IF res.entryTime > arrival THEN res.entryTime - arrival ELSE 0
         IN  IF nodeOverlap_startTime < nodeOverlap_endTime THEN Max(maxDelay, currentWait)
             ELSE maxDelay

\* Lines 563-580: one node reservation folded into maxEstimatedDelayThisStep.
nodeDelay(maxDelay, res, arrival, needsClearanceUntil, currentVehicleId) ==
    IF res.vehicleId = currentVehicleId THEN maxDelay
    ELSE LET nodeOverlap_startTime == Max(arrival, res.entryTime)
             nodeOverlap_endTime == Min(needsClearanceUntil, res.exitTime)
             currentWait == IF res.exitTime > arrival THEN res.exitTime - arrival ELSE 0
         IN  IF nodeOverlap_startTime < nodeOverlap_endTime THEN Max(maxDelay, currentWait)
             ELSE maxDelay

RECURSIVE nodeDelaysFrom(_, _, _, _, _, _)
nodeDelaysFrom(maxDelay, list, i, arrival, needsClearanceUntil, currentVehicleId) ==
    IF i > Len(list) THEN maxDelay
    ELSE nodeDelaysFrom(
            nodeDelay(maxDelay, list[i], arrival, needsClearanceUntil, currentVehicleId),
            list, i + 1, arrival, needsClearanceUntil, currentVehicleId)

\* A variant returning the estimated delay alone.
calculateConflictPenalty_WithoutInconvenience(u_str, v_str, departureTimeFromU_abs, arrivalTimeAtV_abs, currentVehicleId, currentVehicleLength, currentVehicleSpeed, res, g) ==
    IF ~HasEdge(g, u_str, v_str) THEN Seconds(HUGE_PENALTY)
    ELSE LET segmentDistance == Weight(g, u_str, v_str)
             tailExits == departureTimeFromU_abs
                          + TravelTime(segmentDistance + currentVehicleLength, currentVehicleSpeed)
             afterSegment ==
                 segmentDelaysFrom(0, MapGetList(res.segmentOccupations, SegmentKey(u_str, v_str)),
                                   1, u_str, v_str, departureTimeFromU_abs, tailExits,
                                   currentVehicleId)
             maxEstimatedDelayThisStep ==
                 nodeDelaysFrom(afterSegment, MapGetList(res.nodeOccupations, v_str), 1,
                                arrivalTimeAtV_abs,
                                arrivalTimeAtV_abs + Seconds(NODE_CLEARANCE_TIME_SECONDS),
                                currentVehicleId)
         IN  maxEstimatedDelayThisStep

\* Lines 485-588: the estimated delay of the step u -> v, in ticks.
calculateConflictPenalty_WithEstimatedDelay(u_str, v_str, departureTimeFromU_abs, arrivalTimeAtV_abs, currentVehicleId, currentVehicleLength, currentVehicleSpeed, res, g) ==
    IF ~HasEdge(g, u_str, v_str) THEN Seconds(HUGE_PENALTY)
    ELSE LET segmentDistance == Weight(g, u_str, v_str)
             tailExits == departureTimeFromU_abs
                          + TravelTime(segmentDistance + currentVehicleLength, currentVehicleSpeed)
             afterSegment ==
                 segmentDelaysFrom(0, MapGetList(res.segmentOccupations, SegmentKey(u_str, v_str)),
                                   1, u_str, v_str, departureTimeFromU_abs, tailExits,
                                   currentVehicleId)
             maxEstimatedDelayThisStep ==
                 nodeDelaysFrom(afterSegment, MapGetList(res.nodeOccupations, v_str), 1,
                                arrivalTimeAtV_abs,
                                arrivalTimeAtV_abs + Seconds(NODE_CLEARANCE_TIME_SECONDS),
                                currentVehicleId)
         IN  IF maxEstimatedDelayThisStep > 0
             THEN maxEstimatedDelayThisStep + Seconds(INCONVENIENCE_PENALTY_SECONDS)
             ELSE 0

\* ------------------------------------------------------- A_star_time_aware
\* openSet: Map<string, AStarQueueItem> as a sequence of items in insertion
\* order; cameFrom and gScores: functions on the keys they hold.
RECURSIVE IndexOfItem(_, _, _)
IndexOfItem(open, k, i) ==
    IF i > Len(open) THEN 0
    ELSE IF open[i].nodeStr = k THEN i ELSE IndexOfItem(open, k, i + 1)

\* openSet.set(item.nodeStr, item): an existing key keeps its place.
OpenSetSet(open, item) ==
    LET i == IndexOfItem(open, item.nodeStr, 1)
    IN  IF i = 0 THEN Append(open, item) ELSE [open EXCEPT ![i] = item]

OpenSetDelete(open, k) ==
    LET i == IndexOfItem(open, k, 1)
    IN  IF i = 0 THEN open ELSE SubSeq(open, 1, i - 1) \o SubSeq(open, i + 1, Len(open))

RECURSIVE lowestFScoreFrom(_, _, _, _)
\* Lines 637-646: the index of the first item of lowest fScore below
\* Infinity, 0 when there is none (u_item undefined).
lowestFScoreFrom(open, i, minFScore, best) ==
    IF i > Len(open) THEN best
    ELSE IF open[i].fScore < minFScore
         THEN lowestFScoreFrom(open, i + 1, open[i].fScore, i)
         ELSE lowestFScoreFrom(open, i + 1, minFScore, best)

lowestFScore(open) == lowestFScoreFrom(open, 1, Infinity, 0)

MapSet(m, k, x) == [j \in DOMAIN m \cup {k} |-> IF j = k THEN x ELSE m[j]]

\* gScores.get(k) ?? Infinity
GScoreOf(gs, k) == IF k \in DOMAIN gs THEN gs[k] ELSE Infinity

\* A variant that treats a step with a conflict as impassable.
relaxNeighborBlockedByConflict(st, u_item, v_str, distance_uv, vehicleInfo, res, g) ==
    IF vehicleInfo.speed <= 0 THEN st
    ELSE LET baseTravelTime_uv == TravelTime(distance_uv, vehicleInfo.speed)
             departureTimeFrom_U_abs == u_item.currentTimeAtNode
             arrivalTimeAt_V_ifNoWait_abs == departureTimeFrom_U_abs + baseTravelTime_uv
             estimatedDelayOrPenalty_uv ==
                 calculateConflictPenalty_WithEstimatedDelay(u_item.nodeStr, v_str,
                     departureTimeFrom_U_abs, arrivalTimeAt_V_ifNoWait_abs,
                     vehicleInfo.id, vehicleInfo.length, vehicleInfo.speed, res, g)
             cost_uv_step_effective == baseTravelTime_uv + estimatedDelayOrPenalty_uv
             final_gScore_v_effective == u_item.gScore + cost_uv_step_effective
         IN  IF estimatedDelayOrPenalty_uv = 0
                /\ final_gScore_v_effective < GScoreOf(st.gScores, v_str)
             THEN [openSet |-> OpenSetSet(st.openSet,
                       [nodeStr |-> v_str,
                        gScore |-> final_gScore_v_effective,
                        fScore |-> final_gScore_v_effective
                                   + heuristic(stringToLatLng(v_str),
                                               stringToLatLng(vehicleInfo.effectiveEndNodeStr),
                                               vehicleInfo.speed),
                        currentTimeAtNode |-> u_item.currentTimeAtNode + cost_uv_step_effective,
                        parentStr |-> <<u_item.nodeStr>>]),
                   cameFrom |-> MapSet(st.cameFrom, v_str, u_item.nodeStr),
                   gScores |-> MapSet(st.gScores, v_str, final_gScore_v_effective)]
             ELSE st

\* A variant that stamps the open item with the arrival time without delay.
relaxNeighborTimeWithoutDelay(st, u_item, v_str, distance_uv, vehicleInfo, res, g) ==
    IF vehicleInfo.speed <= 0 THEN st
    ELSE LET baseTravelTime_uv == TravelTime(distance_uv, vehicleInfo.speed)
             departureTimeFrom_U_abs == u_item.currentTimeAtNode
             arrivalTimeAt_V_ifNoWait_abs == departureTimeFrom_U_abs + baseTravelTime_uv
             estimatedDelayOrPenalty_uv ==
                 calculateConflictPenalty_WithEstimatedDelay(u_item.nodeStr, v_str,
                     departureTimeFrom_U_abs, arrivalTimeAt_V_ifNoWait_abs,
                     vehicleInfo.id, vehicleInfo.length, vehicleInfo.speed, res, g)
             cost_uv_step_effective == baseTravelTime_uv + estimatedDelayOrPenalty_uv
             final_gScore_v_effective == u_item.gScore + cost_uv_step_effective
         IN  IF final_gScore_v_effective < GScoreOf(st.gScores, v_str)
             THEN [openSet |-> OpenSetSet(st.openSet,
                       [nodeStr |-> v_str,
                        gScore |-> final_gScore_v_effective,
                        fScore |-> final_gScore_v_effective
                                   + heuristic(stringToLatLng(v_str),
                                               stringToLatLng(vehicleInfo.effectiveEndNodeStr),
                                               vehicleInfo.speed),
                        currentTimeAtNode |-> arrivalTimeAt_V_ifNoWait_abs,
                        parentStr |-> <<u_item.nodeStr>>]),
                   cameFrom |-> MapSet(st.cameFrom, v_str, u_item.nodeStr),
                   gScores |-> MapSet(st.gScores, v_str, final_gScore_v_effective)]
             ELSE st

\* A variant that relaxes a neighbour whatever gScore is recorded for it.
relaxNeighborUnconditionally(st, u_item, v_str, distance_uv, vehicleInfo, res, g) ==
    IF vehicleInfo.speed <= 0 THEN st
    ELSE LET baseTravelTime_uv == TravelTime(distance_uv, vehicleInfo.speed)
             departureTimeFrom_U_abs == u_item.currentTimeAtNode
             arrivalTimeAt_V_ifNoWait_abs == departureTimeFrom_U_abs + baseTravelTime_uv
             estimatedDelayOrPenalty_uv ==
                 calculateConflictPenalty_WithEstimatedDelay(u_item.nodeStr, v_str,
                     departureTimeFrom_U_abs, arrivalTimeAt_V_ifNoWait_abs,
                     vehicleInfo.id, vehicleInfo.length, vehicleInfo.speed, res, g)
             cost_uv_step_effective == baseTravelTime_uv + estimatedDelayOrPenalty_uv
             final_gScore_v_effective == u_item.gScore + cost_uv_step_effective
         IN  IF final_gScore_v_effective < Infinity
             THEN [openSet |-> OpenSetSet(st.openSet,
                       [nodeStr |-> v_str,
                        gScore |-> final_gScore_v_effective,
                        fScore |-> final_gScore_v_effective
                                   + heuristic(stringToLatLng(v_str),
                                               stringToLatLng(vehicleInfo.effectiveEndNodeStr),
                                               vehicleInfo.speed),
                        currentTimeAtNode |-> u_item.currentTimeAtNode + cost_uv_step_effective,
                        parentStr |-> <<u_item.nodeStr>>]),
                   cameFrom |-> MapSet(st.cameFrom, v_str, u_item.nodeStr),
                   gScores |-> MapSet(st.gScores, v_str, final_gScore_v_effective)]
             ELSE st

\* Lines 662-704: the neighbour v of the popped item u relaxed; st is
\* [openSet, cameFrom, gScores].
relaxNeighbor(st, u_item, v_str, distance_uv, vehicleInfo, res, g) ==
    IF vehicleInfo.speed <= 0 THEN st
    ELSE LET baseTravelTime_uv == TravelTime(distance_uv, vehicleInfo.speed)
             departureTimeFrom_U_abs == u_item.currentTimeAtNode
             arrivalTimeAt_V_ifNoWait_abs == departureTimeFrom_U_abs + baseTravelTime_uv
             estimatedDelayOrPenalty_uv ==
                 calculateConflictPenalty_WithEstimatedDelay(u_item.nodeStr, v_str,
                     departureTimeFrom_U_abs, arrivalTimeAt_V_ifNoWait_abs,
                     vehicleInfo.id, vehicleInfo.length, vehicleInfo.speed, res, g)
             cost_uv_step_effective == baseTravelTime_uv + estimatedDelayOrPenalty_uv
             final_gScore_v_effective == u_item.gScore + cost_uv_step_effective
         IN  IF final_gScore_v_effective < GScoreOf(st.gScores, v_str)
             THEN [openSet |-> OpenSetSet(st.openSet,
                       [nodeStr |-> v_str,
                        gScore |-> final_gScore_v_effective,
                        fScore |-> final_gScore_v_effective
                                   + heuristic(stringToLatLng(v_str),
                                               stringToLatLng(vehicleInfo.effectiveEndNodeStr),
                                               vehicleInfo.speed),
                        currentTimeAtNode |-> u_item.currentTimeAtNode + cost_uv_step_effective,
                        parentStr |-> <<u_item.nodeStr>>]),
                   cameFrom |-> MapSet(st.cameFrom, v_str, u_item.nodeStr),
                   gScores |-> MapSet(st.gScores, v_str, final_gScore_v_effective)]
             ELSE st

RECURSIVE relaxNeighborsFrom(_, _, _, _, _, _, _)
relaxNeighborsFrom(st, u_item, neighbors, i, vehicleInfo, res, g) ==
    IF i > Len(neighbors) THEN st
    ELSE relaxNeighborsFrom(
            relaxNeighbor(st, u_item, neighbors[i].to, neighbors[i].w, vehicleInfo, res, g),
            u_item, neighbors, i + 1, vehicleInfo, res, g)

\* Lines 606-632: the search's locals before the loop.
astarInitial(g, vehicleInfo, vehicleActualStartTime) ==
    [openSet |-> <<[nodeStr |-> vehicleInfo.effectiveStartNodeStr,
                    gScore |-> 0,
                    fScore |-> heuristic(stringToLatLng(vehicleInfo.effectiveStartNodeStr),
                                         stringToLatLng(vehicleInfo.effectiveEndNodeStr),
                                         vehicleInfo.speed),
                    currentTimeAtNode |-> vehicleActualStartTime,
                    parentStr |-> <<>>]>>,
     cameFrom |-> [j \in {} |-> <<>>],
     gScores |-> [k \in GraphKeys(g) \cup {vehicleInfo.effectiveStartNodeStr} |->
                     IF k = vehicleInfo.effectiveStartNodeStr THEN 0 ELSE Infinity]]

RECURSIVE backtrackFrom(_, _, _, _)
\* Lines 715-727: nodeStrSequence, or <<>> when a cameFrom link is missing
\* before the start is reached.
backtrackFrom(cf, startStr, current, acc) ==
    LET seq == <<current>> \o acc
    IN  IF current = startStr THEN seq
        ELSE IF current \notin DOMAIN cf THEN <<>>
        ELSE backtrackFrom(cf, startStr, cf[current], seq)

\* reconstructPath putting the raw start coordinate on the first timed node,
\* as findPath does with its start.
reconstructPathFromRawStart(goalItem, cf, gs, vehicleInfo, vehicleActualStartTime) ==
    IF goalItem = <<>> THEN <<>>
    ELSE LET nodeStrSequence ==
                 backtrackFrom(cf, vehicleInfo.effectiveStartNodeStr, goalItem[1].nodeStr, <<>>)
         IN  IF Len(nodeStrSequence) = 0
                \/ nodeStrSequence[1] # vehicleInfo.effectiveStartNodeStr
                \/ \E i \in 1..Len(nodeStrSequence) : nodeStrSequence[i] \notin DOMAIN gs
             THEN <<>>
             ELSE <<[i \in 1..Len(nodeStrSequence) |->
                       [nodeStr |-> nodeStrSequence[i],
                        latlng |-> IF i = 1 THEN vehicleInfo.startPosition
                                   ELSE stringToLatLng(nodeStrSequence[i]),
                        time |-> vehicleActualStartTime + gs[nodeStrSequence[i]]]]>>

\* reconstructPath with the gScore subtracted from the start time.
reconstructPathBackdated(goalItem, cf, gs, vehicleInfo, vehicleActualStartTime) ==
    IF goalItem = <<>> THEN <<>>
    ELSE LET nodeStrSequence ==
                 backtrackFrom(cf, vehicleInfo.effectiveStartNodeStr, goalItem[1].nodeStr, <<>>)
         IN  IF Len(nodeStrSequence) = 0
                \/ nodeStrSequence[1] # vehicleInfo.effectiveStartNodeStr
                \/ \E i \in 1..Len(nodeStrSequence) : nodeStrSequence[i] \notin DOMAIN gs
             THEN <<>>
             ELSE <<[i \in 1..Len(nodeStrSequence) |->
                       [nodeStr |-> nodeStrSequence[i],
                        latlng |-> stringToLatLng(nodeStrSequence[i]),
                        time |-> vehicleActualStartTime - gs[nodeStrSequence[i]]]]>>

\* Lines 709-766: the function's result, <<>> for null, else <<timedPath>>.
reconstructPath(goalItem, cf, gs, vehicleInfo, vehicleActualStartTime) ==
    IF goalItem = <<>> THEN <<>>
    ELSE LET nodeStrSequence ==
                 backtrackFrom(cf, vehicleInfo.effectiveStartNodeStr, goalItem[1].nodeStr, <<>>)
         IN  IF Len(nodeStrSequence) = 0
                \/ nodeStrSequence[1] # vehicleInfo.effectiveStartNodeStr
                \/ \E i \in 1..Len(nodeStrSequence) : nodeStrSequence[i] \notin DOMAIN gs
             THEN <<>>
             ELSE <<[i \in 1..Len(nodeStrSequence) |->
                       [nodeStr |-> nodeStrSequence[i],
                        latlng |-> stringToLatLng(nodeStrSequence[i]),
                        time |-> vehicleActualStartTime + gs[nodeStrSequence[i]]]]>>

\* ---------------------------------------------------------------- dijkstra
\* pq: Map<string, number> as a sequence of [vertex, dist] in insertion order.
RECURSIVE IndexOfVertex(_, _, _)
IndexOfVertex(pq, k, i) ==
    IF i > Len(pq) THEN 0
    ELSE IF pq[i].vertex = k THEN i ELSE IndexOfVertex(pq, k, i + 1)

PqSet(pq, k, d) ==
    LET i == IndexOfVertex(pq, k, 1)
    IN  IF i = 0 THEN Append(pq, [vertex |-> k, dist |-> d])
        ELSE [pq EXCEPT ![i] = [vertex |-> k, dist |-> d]]

PqDelete(pq, i) == SubSeq(pq, 1, i - 1) \o SubSeq(pq, i + 1, Len(pq))

RECURSIVE pqMinFrom(_, _, _, _)
\* Lines 396-403: the index of the first entry of smallest distance.
pqMinFrom(pq, i, minVal, best) ==
    IF i > Len(pq) THEN best
    ELSE IF pq[i].dist < minVal THEN pqMinFrom(pq, i + 1, pq[i].dist, i)
         ELSE pqMinFrom(pq, i + 1, minVal, best)

RECURSIVE dijkstraRelaxFrom(_, _, _, _)
\* Lines 413-420: the neighbours of u relaxed; st is [distances, previous, pq].
dijkstraRelaxFrom(st, u, neighbors, i) ==
    IF i > Len(neighbors) THEN st
    ELSE LET v_neighbor == neighbors[i].to
             alt == st.distances[u] + neighbors[i].w
         IN  dijkstraRelaxFrom(
                 IF v_neighbor \in DOMAIN st.distances /\ alt < st.distances[v_neighbor]
                 THEN [distances |-> MapSet(st.distances, v_neighbor, alt),
                       previous |-> MapSet(st.previous, v_neighbor, u),
                       pq |-> PqSet(st.pq, v_neighbor, alt)]
                 ELSE st,
                 u, neighbors, i + 1)

RECURSIVE dijkstraLoop(_, _, _)
\* Lines 394-422: the search loop.
dijkstraLoop(st, g, endNodeStr) ==
    IF st.pq = <<>> THEN st
    ELSE LET best == pqMinFrom(st.pq, 1, Infinity, 0)
         IN  IF best = 0 THEN st
             ELSE LET u == st.pq[best].vertex
                      popped == [st EXCEPT !.pq = PqDelete(st.pq, best)]
                  IN  IF u = endNodeStr THEN popped
                      ELSE dijkstraLoop(
                               dijkstraRelaxFrom(popped, u,
                                   IF GraphHas(g, u) THEN GraphGet(g, u) ELSE <<>>, 1),
                               g, endNodeStr)

\* Lines 383-422: [distances, previous, pq] when the loop ends.
dijkstraSearch(g, startNodeStr, endNodeStr) ==
    dijkstraLoop([distances |-> [k \in GraphKeys(g) \cup {startNodeStr} |->
                                    IF k = startNodeStr THEN 0 ELSE Infinity],
                  previous |-> EmptyMap,
                  pq |-> <<[vertex |-> startNodeStr, dist |-> 0]>>],
                 g, endNodeStr)

RECURSIVE dijkstraPathFrom(_, _, _, _)
\* Lines 428-434: the path walked back along previous.
dijkstraPathFrom(previous, startNodeStr, current, acc) ==
    LET path == <<stringToLatLng(current)>> \o acc
    IN  IF current = startNodeStr THEN path
        ELSE IF current \notin DOMAIN previous THEN path
        ELSE dijkstraPathFrom(previous, startNodeStr, previous[current], path)

\* A variant that walks back from the end node whether or not it was reached.
dijkstraIgnoringUnreached(g, startNodeStr, endNodeStr) ==
    LET st == dijkstraSearch(g, startNodeStr, endNodeStr)
    IN  <<dijkstraPathFrom(st.previous, startNodeStr, endNodeStr, <<>>)>>

\* <<>> (null) or <<path>>, a sequence of LatLng.
dijkstra(g, startNodeStr, endNodeStr) ==
    LET st == dijkstraSearch(g, startNodeStr, endNodeStr)
    IN  IF endNodeStr \in DOMAIN st.distances /\ st.distances[endNodeStr] = Infinity
        THEN <<>>
        ELSE <<dijkstraPathFrom(st.previous, startNodeStr, endNodeStr, <<>>)>>

\* ---------------------------------------------------------------- findPath
\* push(p) unless p equals the last point of the path.
pushUnlessLast(path, p) ==
    IF path = <<>> \/ ~arePointsEqual(p, path[Len(path)]) THEN Append(path, p) ELSE path

RECURSIVE pushDijkstraPathFrom(_, _, _)
\* Lines 502-506.
pushDijkstraPathFrom(path, dijkstraPath, i) ==
    IF i > Len(dijkstraPath) THEN path
    ELSE pushDijkstraPathFrom(pushUnlessLast(path, dijkstraPath[i]), dijkstraPath, i + 1)

\* Lines 483-511: <<>> (return null) or <<finalPath>>.
assembleFinalPath(start, end, dijkstraPath, effectiveStartNodeStr, effectiveEndNodeStr) ==
    IF dijkstraPath = <<>>
    THEN IF effectiveStartNodeStr = effectiveEndNodeStr
         THEN LET commonNodeLatLng == stringToLatLng(effectiveStartNodeStr)
                  viaCommon ==
                      IF /\ ~arePointsEqual(start, commonNodeLatLng)
                         /\ ~arePointsEqual(end, commonNodeLatLng)
                      THEN <<start, commonNodeLatLng>>
                      ELSE <<start>>
              IN  <<pushUnlessLast(viaCommon, end)>>
         ELSE <<>>
    ELSE <<pushUnlessLast(pushDijkstraPathFrom(<<start>>, dijkstraPath[1], 1), end)>>

RECURSIVE uniqueFinalPathFrom(_, _, _)
\* Lines 516-522.
uniqueFinalPathFrom(path, i, acc) ==
    IF i > Len(path) THEN acc
    ELSE uniqueFinalPathFrom(path, i + 1,
             IF ~arePointsEqual(path[i], acc[Len(acc)]) THEN Append(acc, path[i]) ELSE acc)

\* Lines 516-526: <<>> (null) or <<uniqueFinalPath>>.
returnedPath(finalPath) ==
    IF Len(finalPath) < 1 THEN <<>>
    ELSE LET uniqueFinalPath == uniqueFinalPathFrom(finalPath, 2, <<finalPath[1]>>)
         IN  IF Len(uniqueFinalPath) > 0 THEN <<uniqueFinalPath>> ELSE <<>>

\* ---------------------------------------------------- planAllVehicleRoutes
VARIABLES
    allRoadFeatures,           \* input: the road features
    vehicleRequests,           \* input: the vehicle requests
    pc,                        \* position in planAllVehicleRoutes
    workingGraph,
    requestIndex,              \* the Step 3 loop's position in vehicleRequests
    vehiclesWithSnappedNodes,
    vehicleIndex,              \* the Step 5 loop's position
    plans,
    globalReservations,
    openSet, cameFrom, gScores, finalGoalItem,   \* A_star_time_aware's locals
    timedNodePath,             \* A_star_time_aware's result: <<>> (null) or <<path>>
    start, end,                \* findPath's arguments
    effectiveStartNodeStr, effectiveEndNodeStr,   \* findPath's locals
    finalPath,                 \* findPath's result: <<>> (null) or <<path>>
    initialData,               \* the 'mapData' item when the hook mounts: <<>> or <<MapData>>
    storedData,                \* the 'mapData' item of localforage: <<>> or <<MapData>>
    mapData,                   \* useMapStorage's state
    isLoading,                 \* useMapStorage's state
    loaded,                    \* the mount effect's loadData has set the state
    savesInFlight,             \* saveData calls awaiting saveMapData, oldest first
    calls                      \* history: the calls made, in the order they were made

vars == <<allRoadFeatures, vehicleRequests, pc, workingGraph, requestIndex,
          vehiclesWithSnappedNodes, vehicleIndex, plans, globalReservations,
          openSet, cameFrom, gScores, finalGoalItem, timedNodePath,
          start, end, effectiveStartNodeStr, effectiveEndNodeStr, finalPath,
          initialData, storedData, mapData, isLoading, loaded, savesInFlight, calls>>

pathVars == <<start, end, effectiveStartNodeStr, effectiveEndNodeStr, finalPath>>

storageVars == <<initialData, storedData, mapData, isLoading, loaded, savesInFlight, calls>>

plannerVars == <<vehicleRequests, requestIndex, vehiclesWithSnappedNodes, vehicleIndex,
                 plans, globalReservations, openSet, cameFrom, gScores, finalGoalItem,
                 timedNodePath>>

astarVars == <<openSet, cameFrom, gScores, finalGoalItem, timedNodePath>>

inputVars == <<allRoadFeatures, vehicleRequests>>

\* findPath is not running.
PathIdle ==
    /\ start = <<>>
    /\ end = <<>>
    /\ effectiveStartNodeStr = <<>>
    /\ effectiveEndNodeStr = <<>>
    /\ finalPath = <<>>

\* No useMapStorage hook is mounted.
StorageIdle ==
    /\ initialData = <<>>
    /\ storedData = <<>>
    /\ mapData = <<>>
    /\ isLoading = FALSE
    /\ loaded = FALSE
    /\ savesInFlight = <<>>
    /\ calls = <<>>

\* planAllVehicleRoutes is not running.
PlannerIdle ==
    /\ vehicleRequests = <<>>
    /\ requestIndex = 1
    /\ vehiclesWithSnappedNodes = <<>>
    /\ vehicleIndex = 1
    /\ plans = <<>>
    /\ globalReservations = [segmentOccupations |-> EmptyMap, nodeOccupations |-> EmptyMap]
    /\ openSet = <<>>
    /\ cameFrom = EmptyMap
    /\ gScores = EmptyMap
    /\ finalGoalItem = <<>>
    /\ timedNodePath = <<>>

\* ------------------------------------------------------------------ inputs
LatLng(lat, lng) == [lat |-> lat, lng |-> lng]

Feature(id, type, path, isBlocked) ==
    [id |-> id, type |-> type, path |-> path, isBlocked |-> isBlocked]

Road(id, path) == Feature(id, "road", path, FALSE)

PosA == LatLng(100, 0)
PosB == LatLng(100, 200)
PosC == LatLng(0, 100)
PosOff == LatLng(131, 151)
PosD == LatLng(200, 100)

MapStraight == <<Road("r1", <<PosA, PosB>>)>>

MapCross == <<Road("r1", <<PosA, PosB>>), Road("r2", <<PosC, PosD>>)>>

MapDetour ==
    <<Road("r1", <<PosA, PosB>>),
      Road("r3", <<PosA, LatLng(200, 0), LatLng(200, 200), PosB>>)>>

\* Two routes from PosA to PosB: two long hops, or three hops of smaller sum.
MapBypass ==
    <<Road("r7", <<PosA, LatLng(160, 100), PosB>>),
      Road("r8", <<PosA, LatLng(90, 40), LatLng(90, 160), PosB>>)>>

MapGap ==
    <<Road("r4", <<PosA, LatLng(100, 80)>>),
      Feature("r5", "road", <<LatLng(100, 80), LatLng(100, 120)>>, TRUE),
      Road("r6", <<LatLng(100, 120), PosB>>)>>

MapNoRoad ==
    <<Feature("m1", "blocked", <<PosA, PosB>>, FALSE),
      Feature("r5", "road", <<PosC, PosB>>, TRUE),
      Feature("k1", "marker", <<>>, FALSE)>>

RoadMaps == {<<>>, MapStraight, MapCross, MapDetour, MapBypass, MapGap, MapNoRoad}

\* The trips a request is drawn from: <<startPosition, endPosition>>.
Trips == {<<PosA, PosB>>, <<PosB, PosA>>, <<PosA, PosA>>, <<PosC, PosD>>, <<PosOff, PosA>>}

Speeds == {0, BaseSpeed, 2 * BaseSpeed}

StartTimes == {0, Seconds(5)}

VehicleLength == 5

VehicleIds == <<"v1", "v2", "v3", "v4">>

\* Every trip at every speed and start time, and every trip at a negative speed.
RequestFields ==
    {[speed |-> s, startPosition |-> t[1], endPosition |-> t[2], startTime |-> t0] :
        s \in Speeds, t \in Trips, t0 \in StartTimes}
    \cup {[speed |-> -BaseSpeed, startPosition |-> t[1], endPosition |-> t[2],
           startTime |-> 0] : t \in Trips}

\* The request lists: MaxVehicles or fewer requests with distinct ids.
RequestLists ==
    UNION {[1..n -> RequestFields] : n \in 0..MaxVehicles}

MakeRequests(fields) ==
    [i \in 1..Len(fields) |->
        [id |-> VehicleIds[i], speed |-> fields[i].speed, length |-> VehicleLength,
         startPosition |-> fields[i].startPosition,
         endPosition |-> fields[i].endPosition, startTime |-> fields[i].startTime]]

\* ----------------------------------------------------------------- actions
Init ==
    /\ allRoadFeatures \in RoadMaps
    /\ \E fields \in RequestLists : vehicleRequests = MakeRequests(fields)
    /\ pc = "build"
    /\ workingGraph = <<>>
    /\ requestIndex = 1
    /\ vehiclesWithSnappedNodes = <<>>
    /\ vehicleIndex = 1
    /\ plans = <<>>
    /\ globalReservations = [segmentOccupations |-> EmptyMap, nodeOccupations |-> EmptyMap]
    /\ openSet = <<>>
    /\ cameFrom = EmptyMap
    /\ gScores = EmptyMap
    /\ finalGoalItem = <<>>
    /\ timedNodePath = <<>>
    /\ PathIdle
    /\ StorageIdle

\* Line 788: the features handed to buildGraph.
compatibleRoadFeatures(features) ==
    SelectSeq(features, LAMBDA f : f.type = "road" \/ f.type = "blocked")

\* Steps 1 and 2, lines 784-794.
BuildGraph ==
    /\ pc = "build"
    /\ workingGraph' = buildGraph(compatibleRoadFeatures(allRoadFeatures))
    /\ pc' = "snap"
    /\ UNCHANGED <<pathVars, storageVars, inputVars, requestIndex, vehiclesWithSnappedNodes, vehicleIndex, plans,
                   globalReservations, astarVars>>

\* FailedPlan with the other failure status of VehiclePlan.
FailedPlanConstrained(id) ==
    [vehicleId |-> id, path |-> <<>>, status |-> "FAILED_CONSTRAINED", totalTimeSeconds |-> 0]

\* Lines 803, 811 and 915-920: the plan of a request that has no path.
FailedPlan(id) ==
    [vehicleId |-> id, path |-> <<>>, status |-> "FAILED_NO_PATH", totalTimeSeconds |-> 0]

\* Step 3, lines 799-821: one request snapped to the working graph.
SnapRequest ==
    /\ pc = "snap"
    /\ requestIndex <= Len(vehicleRequests)
    /\ LET request == vehicleRequests[requestIndex]
           startInfo == findNearestPointOnGraph(request.startPosition, workingGraph)
           g1 == addPointToGraph(workingGraph, startInfo[1])
           endInfo == findNearestPointOnGraph(request.endPosition, g1)
           g2 == addPointToGraph(g1, endInfo[1])
       IN  IF startInfo = <<>>
           THEN /\ plans' = Append(plans, FailedPlan(request.id))
                /\ UNCHANGED <<workingGraph, vehiclesWithSnappedNodes>>
           ELSE IF endInfo = <<>>
           THEN /\ plans' = Append(plans, FailedPlan(request.id))
                /\ workingGraph' = g1
                /\ UNCHANGED vehiclesWithSnappedNodes
           ELSE /\ workingGraph' = g2
                /\ vehiclesWithSnappedNodes' =
                       Append(vehiclesWithSnappedNodes,
                              [id |-> request.id, speed |-> request.speed,
                               length |-> request.length,
                               startPosition |-> request.startPosition,
                               endPosition |-> request.endPosition,
                               startTime |-> request.startTime,
                               effectiveStartNodeStr |-> effectiveNodeStr(startInfo[1]),
                               effectiveEndNodeStr |-> effectiveNodeStr(endInfo[1])])
                /\ UNCHANGED plans
    /\ requestIndex' = requestIndex + 1
    /\ UNCHANGED <<pathVars, storageVars, inputVars, pc, vehicleIndex, globalReservations, astarVars>>

RECURSIVE insertBeforeEqual(_, _)
\* insertByStartTime placing v before the elements of equal startTime.
insertBeforeEqual(sorted, v) ==
    IF sorted = <<>> THEN <<v>>
    ELSE IF sorted[Len(sorted)].startTime - v.startTime < 0
         THEN Append(sorted, v)
         ELSE Append(insertBeforeEqual(SubSeq(sorted, 1, Len(sorted) - 1), v),
                     sorted[Len(sorted)])

RECURSIVE insertByStartTime(_, _)
\* v placed after every element whose startTime is not larger than its own.
insertByStartTime(sorted, v) ==
    IF sorted = <<>> THEN <<v>>
    ELSE IF sorted[Len(sorted)].startTime - v.startTime <= 0
         THEN Append(sorted, v)
         ELSE Append(insertByStartTime(SubSeq(sorted, 1, Len(sorted) - 1), v),
                     sorted[Len(sorted)])

RECURSIVE sortByStartTimeFrom(_, _, _)
sortByStartTimeFrom(vs, i, acc) ==
    IF i > Len(vs) THEN acc
    ELSE sortByStartTimeFrom(vs, i + 1, insertByStartTime(acc, vs[i]))

\* A variant that sorts by descending start time.
sortByStartTimeDescending(vs) ==
    LET sorted == sortByStartTimeFrom(vs, 1, <<>>)
    IN  [i \in 1..Len(sorted) |-> sorted[Len(sorted) - i + 1]]

\* Array.prototype.sort((a, b) => a.startTime - b.startTime): stable.
sortByStartTime(vs) == sortByStartTimeFrom(vs, 1, <<>>)

\* Step 4, line 825.
SortVehicles ==
    /\ pc = "snap"
    /\ requestIndex > Len(vehicleRequests)
    /\ vehiclesWithSnappedNodes' = sortByStartTime(vehiclesWithSnappedNodes)
    /\ pc' = "plan"
    /\ UNCHANGED <<pathVars, storageVars, inputVars, workingGraph, requestIndex, vehicleIndex, plans,
                   globalReservations, astarVars>>

\* Step 5, lines 828-841 and 598-634: A_star_time_aware called for the next vehicle.
AStarStart ==
    /\ pc = "plan"
    /\ vehicleIndex <= Len(vehiclesWithSnappedNodes)
    /\ LET vehicleInfo == vehiclesWithSnappedNodes[vehicleIndex]
           st == astarInitial(workingGraph, vehicleInfo, vehicleInfo.startTime)
       IN  /\ openSet' = st.openSet
           /\ cameFrom' = st.cameFrom
           /\ gScores' = st.gScores
    /\ finalGoalItem' = <<>>
    /\ timedNodePath' = <<>>
    /\ pc' = "astar"
    /\ UNCHANGED <<pathVars, storageVars, inputVars, workingGraph, requestIndex, vehiclesWithSnappedNodes,
                   vehicleIndex, plans, globalReservations>>

\* Lines 636-707: one iteration of the search loop.
AStarIterate ==
    /\ pc = "astar"
    /\ LET vehicleInfo == vehiclesWithSnappedNodes[vehicleIndex]
           best == lowestFScore(openSet)
           u_item == openSet[best]
           popped == OpenSetDelete(openSet, u_item.nodeStr)
           st == relaxNeighborsFrom(
                     [openSet |-> popped, cameFrom |-> cameFrom, gScores |-> gScores],
                     u_item,
                     IF GraphHas(workingGraph, u_item.nodeStr)
                     THEN GraphGet(workingGraph, u_item.nodeStr) ELSE <<>>,
                     1, vehicleInfo, globalReservations, workingGraph)
       IN  IF best = 0
           THEN /\ pc' = "astar_end"
                /\ UNCHANGED <<openSet, cameFrom, gScores, finalGoalItem>>
           ELSE IF u_item.nodeStr = vehicleInfo.effectiveEndNodeStr
           THEN /\ finalGoalItem' = <<u_item>>
                /\ openSet' = popped
                /\ pc' = "astar_end"
                /\ UNCHANGED <<cameFrom, gScores>>
           ELSE /\ openSet' = st.openSet
                /\ cameFrom' = st.cameFrom
                /\ gScores' = st.gScores
                /\ pc' = IF st.openSet = <<>> THEN "astar_end" ELSE "astar"
                /\ UNCHANGED finalGoalItem
    /\ UNCHANGED <<pathVars, storageVars, inputVars, workingGraph, requestIndex, vehiclesWithSnappedNodes,
                   vehicleIndex, plans, globalReservations, timedNodePath>>

\* Lines 709-766: path reconstruction and return.
AStarReturn ==
    /\ pc = "astar_end"
    /\ LET vehicleInfo == vehiclesWithSnappedNodes[vehicleIndex]
       IN  timedNodePath' = reconstructPath(finalGoalItem, cameFrom, gScores, vehicleInfo,
                                            vehicleInfo.startTime)
    /\ pc' = "record"
    /\ UNCHANGED <<pathVars, storageVars, inputVars, workingGraph, requestIndex, vehiclesWithSnappedNodes,
                   vehicleIndex, plans, globalReservations, openSet, cameFrom, gScores,
                   finalGoalItem>>

\* Lines 884-895 and 899-909: the node occupation of one timed node.
nodeOccupation(id, timed) ==
    [vehicleId |-> id, nodeStr |-> timed.nodeStr,
     entryTime |-> timed.time - HalfSafetyWindow,
     exitTime |-> timed.time + Seconds(NODE_CLEARANCE_TIME_SECONDS) + HalfSafetyWindow]

\* Lines 861-879: the segment occupation of the hop nodeA -> nodeB.
segmentOccupation(vehicleInfo, nodeA_timed, nodeB_timed) ==
    [vehicleId |-> vehicleInfo.id,
     nodeA_str |-> nodeA_timed.nodeStr,
     nodeB_str |-> nodeB_timed.nodeStr,
     startTime |-> nodeA_timed.time,
     endTime |-> nodeA_timed.time
                 + TravelTime(calculateDistance(nodeA_timed.latlng, nodeB_timed.latlng)
                              + vehicleInfo.length, vehicleInfo.speed)]

\* A variant that reserves the departure node of each hop only.
reserveHopDepartureOnly(res, vehicleInfo, path, i) ==
    LET nodeA_timed == path[i]
        nodeB_timed == path[i + 1]
        seg == MapPush(res.segmentOccupations,
                       SegmentKey(nodeA_timed.nodeStr, nodeB_timed.nodeStr),
                       segmentOccupation(vehicleInfo, nodeA_timed, nodeB_timed))
        nodesA == MapPush(res.nodeOccupations, nodeA_timed.nodeStr,
                          nodeOccupation(vehicleInfo.id, nodeA_timed))
    IN  [segmentOccupations |-> seg, nodeOccupations |-> nodesA]

\* Lines 856-911: one hop's reservations appended.
reserveHop(res, vehicleInfo, path, i) ==
    LET nodeA_timed == path[i]
        nodeB_timed == path[i + 1]
        seg == MapPush(res.segmentOccupations,
                       SegmentKey(nodeA_timed.nodeStr, nodeB_timed.nodeStr),
                       segmentOccupation(vehicleInfo, nodeA_timed, nodeB_timed))
        nodesA == MapPush(res.nodeOccupations, nodeA_timed.nodeStr,
                          nodeOccupation(vehicleInfo.id, nodeA_timed))
        nodesB == IF i = Len(path) - 1
                  THEN MapPush(nodesA, nodeB_timed.nodeStr,
                               nodeOccupation(vehicleInfo.id, nodeB_timed))
                  ELSE nodesA
    IN  [segmentOccupations |-> seg, nodeOccupations |-> nodesB]

RECURSIVE reservePathAndLoneNodeFrom(_, _, _, _)
\* A variant that also reserves the node of a path of one node.
reservePathAndLoneNodeFrom(res, vehicleInfo, path, i) ==
    IF Len(path) = 1
    THEN [res EXCEPT !.nodeOccupations =
                         MapPush(@, path[1].nodeStr, nodeOccupation(vehicleInfo.id, path[1]))]
    ELSE IF i > Len(path) - 1 THEN res
    ELSE reservePathAndLoneNodeFrom(reserveHop(res, vehicleInfo, path, i), vehicleInfo,
                                    path, i + 1)

RECURSIVE reservePathFrom(_, _, _, _)
reservePathFrom(res, vehicleInfo, path, i) ==
    IF i > Len(path) - 1 THEN res
    ELSE reservePathFrom(reserveHop(res, vehicleInfo, path, i), vehicleInfo, path, i + 1)

\* Lines 843-921: the plan of the vehicle pushed, its reservations made.
RecordPlan ==
    /\ pc = "record"
    /\ LET vehicleInfo == vehiclesWithSnappedNodes[vehicleIndex]
       IN  IF timedNodePath # <<>> /\ Len(timedNodePath[1]) > 0
           THEN LET path == timedNodePath[1]
                IN  /\ plans' = Append(plans,
                           [vehicleId |-> vehicleInfo.id, path |-> path,
                            status |-> "SUCCESS",
                            totalTimeSeconds |-> path[Len(path)].time - path[1].time])
                    /\ globalReservations' =
                           reservePathFrom(globalReservations, vehicleInfo, path, 1)
           ELSE /\ plans' = Append(plans, FailedPlan(vehicleInfo.id))
                /\ UNCHANGED globalReservations
    /\ vehicleIndex' = vehicleIndex + 1
    /\ pc' = "plan"
    /\ UNCHANGED <<pathVars, storageVars, inputVars, workingGraph, requestIndex, vehiclesWithSnappedNodes, astarVars>>

\* Line 923: return plans.
ReturnPlans ==
    /\ pc = "plan"
    /\ vehicleIndex > Len(vehiclesWithSnappedNodes)
    /\ pc' = "done"
    /\ UNCHANGED <<pathVars, storageVars, inputVars, workingGraph, requestIndex, vehiclesWithSnappedNodes,
                   vehicleIndex, plans, globalReservations, astarVars>>

Next ==
    \/ BuildGraph
    \/ SnapRequest
    \/ SortVehicles
    \/ AStarStart
    \/ AStarIterate
    \/ AStarReturn
    \/ RecordPlan
    \/ ReturnPlans

Spec == Init /\ [][Next]_vars

\* ------------------------------------------- the graph under projections
\* buildGraph on a catalogue of road geometries, then projections of arbitrary
\* targets (findNearestPointOnGraph followed by addPointToGraph), as findPath
\* and planAllVehicleRoutes make them.
MaxProjections == 2

\* A closed square: first and last vertex coincide.
GeoLoop ==
    <<Road("g1", <<LatLng(0, 0), LatLng(0, 100), LatLng(100, 100), LatLng(100, 0),
                   LatLng(0, 0)>>)>>

\* One road crossing itself.
GeoBowtie ==
    <<Road("g2", <<LatLng(0, 0), LatLng(100, 100), LatLng(100, 0), LatLng(0, 100)>>)>>

\* One segment crossed by two other roads.
GeoDouble ==
    <<Road("r1", <<PosA, PosB>>),
      Road("g3", <<LatLng(0, 50), LatLng(200, 50)>>),
      Road("g4", <<LatLng(0, 150), LatLng(200, 150)>>)>>

\* One segment crossed by one road and touched by the bend of another.
GeoApex ==
    <<Road("r1", <<PosA, PosB>>),
      Road("g3", <<LatLng(0, 50), LatLng(200, 50)>>),
      Road("g7", <<LatLng(50, 100), LatLng(100, 150), LatLng(50, 200)>>)>>

\* A road and the end of a second road on opposite sides of LatLng(70, 100),
\* at the same distance from it, in the two orders of the feature list.
GeoTwin ==
    <<Road("r1", <<PosA, PosB>>), Road("g8", <<LatLng(40, 100), PosC>>)>>

GeoTwinReversed ==
    <<Road("g8", <<LatLng(40, 100), PosC>>), Road("r1", <<PosA, PosB>>)>>

\* A road ending on the interior of another.
GeoTee == <<Road("r1", <<PosA, PosB>>), Road("g5", <<PosC, LatLng(100, 100)>>)>>

\* A polyline digitised with jitter below the grid of the node keys: the
\* second vertex is within tolerance of the first, the third is not within
\* tolerance of the second and formats to the key of the first.
GeoJitter ==
    <<Road("g6", <<LatLng(CoordRes, 0), LatLng(CoordRes + Tolerance - 1, 0),
                   LatLng(CoordRes - 1, 0)>>)>>

GeoMaps ==
    {MapStraight, MapCross, MapDetour, MapGap, MapNoRoad,
     GeoLoop, GeoBowtie, GeoDouble, GeoApex, GeoTwin, GeoTwinReversed, GeoTee, GeoJitter}

ProjectionTargets ==
    {PosOff, PosA, LatLng(50, 50), LatLng(3, 120), LatLng(150, 30), LatLng(70, 171),
     LatLng(130, 150), LatLng(70, 100)}

GraphInit ==
    /\ allRoadFeatures \in GeoMaps
    /\ vehicleRequests = <<>>
    /\ pc = "buildGraph"
    /\ workingGraph = <<>>
    /\ requestIndex = 1
    /\ vehiclesWithSnappedNodes = <<>>
    /\ vehicleIndex = 1
    /\ plans = <<>>
    /\ globalReservations = [segmentOccupations |-> EmptyMap, nodeOccupations |-> EmptyMap]
    /\ openSet = <<>>
    /\ cameFrom = EmptyMap
    /\ gScores = EmptyMap
    /\ finalGoalItem = <<>>
    /\ timedNodePath = <<>>
    /\ PathIdle
    /\ StorageIdle

\* navigation.ts line 459: the base graph of the road features.
BuildRoadGraph ==
    /\ pc = "buildGraph"
    /\ workingGraph' = buildGraph(allRoadFeatures)
    /\ pc' = "project"
    /\ UNCHANGED <<pathVars, storageVars, inputVars, requestIndex, vehiclesWithSnappedNodes, vehicleIndex, plans,
                   globalReservations, astarVars>>

\* navigation.ts lines 465-478: one target projected onto the working graph.
ProjectPoint ==
    /\ pc = "project"
    /\ requestIndex <= MaxProjections
    /\ \E target \in ProjectionTargets :
          LET info == findNearestPointOnGraph(target, workingGraph)
          IN  /\ info # <<>>
              /\ workingGraph' = addPointToGraph(workingGraph, info[1])
    /\ requestIndex' = requestIndex + 1
    /\ UNCHANGED <<pathVars, storageVars, inputVars, pc, vehiclesWithSnappedNodes, vehicleIndex, plans,
                   globalReservations, astarVars>>

GraphNext ==
    \/ BuildRoadGraph
    \/ ProjectPoint

SpecGraph == GraphInit /\ [][GraphNext]_vars

\* ------------------------------------------------------------- findPath
\* findPath applied to a catalogue of road features and a pair of points.
PathMaps == RoadMaps \cup GeoMaps

\* LatLng(100, Tolerance - 1) is within tolerance of PosA and is not PosA.
PathPoints ==
    ProjectionTargets \cup {PosB, PosC, LatLng(100, Tolerance - 1), LatLng(100, 110)}

PathInit ==
    /\ allRoadFeatures \in PathMaps
    /\ start \in PathPoints
    /\ end \in PathPoints
    /\ effectiveStartNodeStr = <<>>
    /\ effectiveEndNodeStr = <<>>
    /\ finalPath = <<>>
    /\ workingGraph = <<>>
    /\ pc = "findPath"
    /\ PlannerIdle
    /\ StorageIdle

\* navigation.ts line 457: start and end are equal.
FindPathSamePoint ==
    /\ pc = "findPath"
    /\ arePointsEqual(start, end)
    /\ finalPath' = << <<start>> >>
    /\ pc' = "returned"
    /\ UNCHANGED <<allRoadFeatures, workingGraph, start, end, effectiveStartNodeStr,
                   effectiveEndNodeStr, plannerVars, storageVars>>

\* Lines 459-463: the working graph, a copy of the base graph.
FindPathBuildGraph ==
    /\ pc = "findPath"
    /\ ~arePointsEqual(start, end)
    /\ workingGraph' = buildGraph(allRoadFeatures)
    /\ pc' = "startInfo"
    /\ UNCHANGED <<allRoadFeatures, pathVars, plannerVars, storageVars>>

\* Lines 465-470: start projected onto the working graph.
FindPathSnapStart ==
    /\ pc = "startInfo"
    /\ LET startInfo == findNearestPointOnGraph(start, workingGraph)
       IN  IF startInfo = <<>>
           THEN /\ finalPath' = <<>>
                /\ pc' = "returned"
                /\ UNCHANGED <<workingGraph, effectiveStartNodeStr>>
           ELSE /\ workingGraph' = addPointToGraph(workingGraph, startInfo[1])
                /\ effectiveStartNodeStr' = effectiveNodeStr(startInfo[1])
                /\ pc' = "endInfo"
                /\ UNCHANGED finalPath
    /\ UNCHANGED <<allRoadFeatures, start, end, effectiveEndNodeStr, plannerVars,
                   storageVars>>

\* Lines 473-478: end projected onto the working graph with start's projection.
FindPathSnapEnd ==
    /\ pc = "endInfo"
    /\ LET endInfo == findNearestPointOnGraph(end, workingGraph)
       IN  IF endInfo = <<>>
           THEN /\ finalPath' = <<>>
                /\ pc' = "returned"
                /\ UNCHANGED <<workingGraph, effectiveEndNodeStr>>
           ELSE /\ workingGraph' = addPointToGraph(workingGraph, endInfo[1])
                /\ effectiveEndNodeStr' = effectiveNodeStr(endInfo[1])
                /\ pc' = "dijkstra"
                /\ UNCHANGED finalPath
    /\ UNCHANGED <<allRoadFeatures, start, end, effectiveStartNodeStr, plannerVars,
                   storageVars>>

\* Lines 482-526: the search, the final path and the return.
FindPathReturn ==
    /\ pc = "dijkstra"
    /\ LET dijkstraPath == dijkstra(workingGraph, effectiveStartNodeStr,
                                    effectiveEndNodeStr)
           assembled == assembleFinalPath(start, end, dijkstraPath,
                                          effectiveStartNodeStr, effectiveEndNodeStr)
       IN  finalPath' = IF assembled = <<>> THEN <<>> ELSE returnedPath(assembled[1])
    /\ pc' = "returned"
    /\ UNCHANGED <<allRoadFeatures, workingGraph, start, end, effectiveStartNodeStr,
                   effectiveEndNodeStr, plannerVars, storageVars>>

PathNext ==
    \/ FindPathSamePoint
    \/ FindPathBuildGraph
    \/ FindPathSnapStart
    \/ FindPathSnapEnd
    \/ FindPathReturn

SpecPath == PathInit /\ [][PathNext]_vars

\* -------------------------------------------------------- useMapStorage
\* The hook of one mounted component: its state, the 'mapData' item of
\* localforage, and the saveData calls suspended at 'await saveMapData'.
\* A MapData is [features, lastModified] (bounds, which no feature operation
\* changes, is left out); Date.now() is the number of the call.  setItem is
\* taken to succeed, and the setItem calls to complete in the order they were
\* made.  A call reads the mapData of the latest state.
MaxCalls == 3

DEFAULT_MAP_DATA == [features |-> <<>>, lastModified |-> 0]

\* The features handed to the hook: two versions of "s1", and "s2", "s3".
StorageFeatures ==
    {Road("s1", <<PosA, PosB>>), Road("s1", <<PosA, PosC>>),
     Road("s2", <<PosC, PosD>>), Road("s3", <<PosB, PosD>>)}

FeatureIds == {f.id : f \in StorageFeatures}

InitialItems ==
    {<<>>, <<[features |-> <<Road("s1", <<PosA, PosB>>)>>, lastModified |-> 0]>>}

\* home.tsx lines 51-59: data || DEFAULT_MAP_DATA.
getMapData(item) == IF item = <<>> THEN DEFAULT_MAP_DATA ELSE item[1]

\* The ids a uuid cannot repeat: those stored, shown or handed over before.
IdsInUse ==
    {getMapData(initialData).features[i].id :
         i \in 1..Len(getMapData(initialData).features)}
    \cup {mapData.features[i].id : i \in 1..Len(mapData.features)}
    \cup {calls[i].arg.id : i \in 1..Len(calls)}

\* Lines 70-72.
withFeatureAdded(features, feature) == Append(features, feature)

\* Lines 75-79.
withFeatureUpdated(features, updatedFeature) ==
    [i \in 1..Len(features) |->
        IF features[i].id = updatedFeature.id THEN updatedFeature ELSE features[i]]

RECURSIVE withoutFeature(_, _)
\* Lines 83-85.
withoutFeature(features, featureId) ==
    IF features = <<>> THEN <<>>
    ELSE IF Head(features).id = featureId THEN withoutFeature(Tail(features), featureId)
    ELSE <<Head(features)>> \o withoutFeature(Tail(features), featureId)

\* Lines 41-47 and 65-67: the data a call hands to saveMapData.
updatedData(data, features) ==
    [data EXCEPT !.features = features, !.lastModified = Len(calls) + 1]

StorageInit ==
    /\ initialData \in InitialItems
    /\ storedData = initialData
    /\ mapData = DEFAULT_MAP_DATA
    /\ isLoading = TRUE
    /\ loaded = FALSE
    /\ savesInFlight = <<>>
    /\ calls = <<>>
    /\ pc = "mounted"
    /\ allRoadFeatures = <<>>
    /\ workingGraph = <<>>
    /\ PlannerIdle
    /\ PathIdle

\* Lines 19-38: loadData, started on mount, sets the state to the item read.
LoadData ==
    /\ ~loaded
    /\ mapData' = getMapData(initialData)
    /\ isLoading' = FALSE
    /\ loaded' = TRUE
    /\ UNCHANGED <<initialData, storedData, savesInFlight, calls>>
    /\ UNCHANGED <<pc, allRoadFeatures, workingGraph, plannerVars, pathVars>>

\* Lines 41-48 up to the await: a call of kind op with argument arg that
\* saves features.
CallSaves(op, arg, features) ==
    /\ Len(calls) < MaxCalls
    /\ isLoading' = TRUE
    /\ savesInFlight' = Append(savesInFlight, updatedData(mapData, features))
    /\ calls' = Append(calls, [op |-> op, arg |-> arg, loaded |-> loaded])
    /\ UNCHANGED <<initialData, storedData, mapData, loaded>>

AddFeature ==
    /\ \E feature \in StorageFeatures :
          /\ feature.id \notin IdsInUse
          /\ CallSaves("add", feature, withFeatureAdded(mapData.features, feature))
    /\ UNCHANGED <<pc, allRoadFeatures, workingGraph, plannerVars, pathVars>>

UpdateFeature ==
    /\ \E updatedFeature \in StorageFeatures :
          CallSaves("update", updatedFeature,
                    withFeatureUpdated(mapData.features, updatedFeature))
    /\ UNCHANGED <<pc, allRoadFeatures, workingGraph, plannerVars, pathVars>>

DeleteFeature ==
    /\ \E featureId \in FeatureIds :
          CallSaves("delete", [id |-> featureId],
                    withoutFeature(mapData.features, featureId))
    /\ UNCHANGED <<pc, allRoadFeatures, workingGraph, plannerVars, pathVars>>

\* home.tsx lines 41-49 and useMapStorage.tsx lines 48-61: the oldest setItem
\* completes and its saveData resumes.
SaveCompletes ==
    /\ savesInFlight # <<>>
    /\ storedData' = <<Head(savesInFlight)>>
    /\ mapData' = Head(savesInFlight)
    /\ isLoading' = FALSE
    /\ savesInFlight' = Tail(savesInFlight)
    /\ UNCHANGED <<initialData, loaded, calls>>
    /\ UNCHANGED <<pc, allRoadFeatures, workingGraph, plannerVars, pathVars>>

StorageNext ==
    \/ LoadData
    \/ AddFeature
    \/ UpdateFeature
    \/ DeleteFeature
    \/ SaveCompletes

SpecStorage == StorageInit /\ [][StorageNext]_vars

\* ------------------------------------------------------------------ claims
\* Every directed edge u -> v has its reverse v -> u with the same weight.
Undirected(g) ==
    \A i \in 1..Len(g) : \A j \in 1..Len(g[i].edges) :
        /\ HasEdge(g, g[i].edges[j].to, g[i].key)
        /\ Weight(g, g[i].edges[j].to, g[i].key) = g[i].edges[j].w

\* No node is its own neighbour.
LoopFree(g) ==
    \A i \in 1..Len(g) : \A j \in 1..Len(g[i].edges) : g[i].edges[j].to # g[i].key

\* C10: after buildGraph and after any sequence of projections, the graph is
\* undirected (every edge has its reverse with the same weight) and loop-free
\* (no node is its own neighbour).  Refuted under SpecGraph: the road of
\* GeoJitter leaves a node that is its own neighbour.
C10_UndirectedAndLoopFree ==
    pc = "project" => Undirected(workingGraph) /\ LoopFree(workingGraph)

\* ------------------------------------------------ claims about the planner
SegmentOccupations == globalReservations.segmentOccupations

NodeOccupations == globalReservations.nodeOccupations

\* The input request of a vehicle id and its place in the input.
RequestIndexOf(id) == CHOOSE i \in 1..Len(vehicleRequests) : vehicleRequests[i].id = id

RequestOf(id) == vehicleRequests[RequestIndexOf(id)]

\* The places of the plans of a vehicle id in the returned list.
PlansOf(id) == {i \in 1..Len(plans) : plans[i].vehicleId = id}

SnappedIds == {vehiclesWithSnappedNodes[i].id : i \in 1..Len(vehiclesWithSnappedNodes)}

RECURSIVE ReachableFrom(_, _)
\* The nodes joined to a node of S by edges of g.
ReachableFrom(g, S) ==
    LET step == S \cup {e.to : e \in UNION {{GraphGet(g, k)[j] : j \in 1..Len(GraphGet(g, k))} :
                                             k \in {x \in S : GraphHas(g, x)}}}
    IN  IF step = S THEN S ELSE ReachableFrom(g, step)

Connected(g, a, b) == b \in ReachableFrom(g, {a})

\* C1: after planAllVehicleRoutes returns, no two vehicles hold segment
\* occupations on the same undirected segment key whose time intervals
\* overlap.  Refuted: a conflict only adds to the cost of a step, and the
\* reservation of a hop is made from the departure time whatever the delay.
C1_NoOverlappingSegmentOccupations ==
    pc = "done" =>
        \A k \in DOMAIN SegmentOccupations :
            \A i, j \in 1..Len(SegmentOccupations[k]) :
                LET a == SegmentOccupations[k][i]
                    b == SegmentOccupations[k][j]
                IN  a.vehicleId # b.vehicleId =>
                        ~(Max(a.startTime, b.startTime) < Min(a.endTime, b.endTime))

\* C2: after planAllVehicleRoutes returns, no two vehicles hold node
\* occupations on the same node whose windows [entryTime, exitTime] overlap.
\* Refuted: the start node of a path is never tested against the table, and
\* a delay at a later node is a cost, not a guarantee.
C2_NoOverlappingNodeOccupations ==
    pc = "done" =>
        \A k \in DOMAIN NodeOccupations :
            \A i, j \in 1..Len(NodeOccupations[k]) :
                LET a == NodeOccupations[k][i]
                    b == NodeOccupations[k][j]
                IN  a.vehicleId # b.vehicleId =>
                        ~(Max(a.entryTime, b.entryTime) < Min(a.exitTime, b.exitTime))

\* A plan as the claim C3 allows it.
WellFormedPlan(plan) ==
    \/ plan.status = "SUCCESS" /\ Len(plan.path) > 0
    \/ plan.status = "FAILED_NO_PATH" /\ plan.path = <<>> /\ plan.totalTimeSeconds = 0

\* C3: planAllVehicleRoutes returns exactly one plan per input request (every
\* request id once, failures included); every plan is SUCCESS with a non-empty
\* path or FAILED_NO_PATH with an empty path and total time 0, and no other
\* status is ever produced.
C3_OnePlanPerRequest ==
    /\ \A i \in 1..Len(plans) : WellFormedPlan(plans[i])
    /\ pc = "done" =>
          /\ Len(plans) = Len(vehicleRequests)
          /\ \A r \in 1..Len(vehicleRequests) :
                Cardinality(PlansOf(vehicleRequests[r].id)) = 1

C3_Witness ==
    /\ pc = "done"
    /\ Len(vehicleRequests) = MaxVehicles
    /\ \E i \in 1..Len(plans) : plans[i].status = "SUCCESS"
    /\ \E i \in 1..Len(plans) : plans[i].status = "FAILED_NO_PATH"

\* The priority order of two requests: ascending start time, ties in input order.
Precedes(idA, idB) ==
    \/ RequestOf(idA).startTime < RequestOf(idB).startTime
    \/ /\ RequestOf(idA).startTime = RequestOf(idB).startTime
       /\ RequestIndexOf(idA) < RequestIndexOf(idB)

\* C4 as stated: the returned plans are in priority order (ascending desired
\* start time, ties in input order) for every input, failed requests included.
C4_PlansInPriorityOrder ==
    pc = "done" =>
        \A i, j \in 1..Len(plans) :
            i < j => Precedes(plans[i].vehicleId, plans[j].vehicleId)

\* C4 as the code has it: the plans of the requests whose projection failed
\* come first, in input order; the plans of the snapped vehicles follow them
\* in priority order (ascending desired start time, ties in input order).
C4_PlansInPriorityOrderAfterProjectionFailures ==
    pc = "done" =>
        \A i, j \in 1..Len(plans) :
            i < j =>
                LET a == plans[i].vehicleId
                    b == plans[j].vehicleId
                IN  IF a \notin SnappedIds
                    THEN b \in SnappedIds \/ RequestIndexOf(a) < RequestIndexOf(b)
                    ELSE b \in SnappedIds /\ Precedes(a, b)

\* The sort acted: the later request of the input is the first planned.
C4_Witness ==
    /\ pc = "done"
    /\ Len(plans) = 2
    /\ workingGraph # <<>>
    /\ plans[1].vehicleId = "v2"
    /\ plans[1].status = "SUCCESS"
    /\ plans[2].status = "FAILED_NO_PATH"

Monotone(path) == \A i \in 1..(Len(path) - 1) : path[i].time <= path[i + 1].time

\* C5: in every path A_star_time_aware returns and every path of a plan, for
\* any reservation table, the times of successive timed nodes are
\* non-decreasing.
C5_TimesNonDecreasing ==
    /\ timedNodePath # <<>> => Monotone(timedNodePath[1])
    /\ \A i \in 1..Len(plans) : Monotone(plans[i].path)

\* A path of three nodes planned against the reservations of another vehicle
\* and delayed by them.
C5_Witness ==
    /\ pc = "record"
    /\ DOMAIN NodeOccupations # {}
    /\ timedNodePath # <<>>
    /\ Len(timedNodePath[1]) >= 3
    /\ LET path == timedNodePath[1]
           vehicleInfo == vehiclesWithSnappedNodes[vehicleIndex]
       IN  path[3].time - path[1].time >
               TravelTime(Weight(workingGraph, path[1].nodeStr, path[2].nodeStr)
                          + Weight(workingGraph, path[2].nodeStr, path[3].nodeStr),
                          vehicleInfo.speed)

\* The features the claim C6 lets into the graph.
OpenRoads(features) == SelectSeq(features, LAMBDA f : f.type = "road" /\ ~f.isBlocked)

\* C6: a feature that is not of type road, or is blocked, contributes no node
\* and no edge: the graph built from the features is the graph built from the
\* open roads alone; and a vehicle whose start and end are nodes of that graph
\* which no chain of open roads joins gets FAILED_NO_PATH.
C6_BlockedFeaturesContributeNothing ==
    /\ (pc = "snap" /\ requestIndex = 1) =>
          workingGraph = buildGraph(OpenRoads(allRoadFeatures))
    /\ pc = "done" =>
          \A i \in 1..Len(vehiclesWithSnappedNodes) :
              LET v == vehiclesWithSnappedNodes[i]
                  openGraph == buildGraph(OpenRoads(allRoadFeatures))
                  startStr == latLngToString(v.startPosition)
                  endStr == latLngToString(v.endPosition)
              IN  /\ GraphHas(openGraph, startStr)
                  /\ GraphHas(openGraph, endStr)
                  /\ ~Connected(openGraph, startStr, endStr)
                  => \A p \in PlansOf(v.id) : plans[p].status = "FAILED_NO_PATH"

\* PosA and PosB are joined only through the blocked road of MapGap.
C6_Witness ==
    /\ pc = "done"
    /\ allRoadFeatures = MapGap
    /\ \E i \in 1..Len(vehicleRequests) :
          /\ vehicleRequests[i].startPosition = PosA
          /\ vehicleRequests[i].endPosition = PosB
          /\ vehicleRequests[i].speed > 0
          /\ \A p \in PlansOf(vehicleRequests[i].id) : plans[p].status = "FAILED_NO_PATH"
          /\ PlansOf(vehicleRequests[i].id) # {}

\* No feature is an unblocked road of two points or more.
NoEligibleRoad ==
    \A i \in 1..Len(allRoadFeatures) :
        LET f == allRoadFeatures[i]
        IN  f.type # "road" \/ f.isBlocked \/ Len(f.path) < 2

\* C7: when the road features yield an empty graph (no eligible road), every
\* request receives a FAILED_NO_PATH plan with an empty path, no reservation
\* is made, and the call returns.
C7_EmptyGraphAllFail ==
    NoEligibleRoad =>
        /\ workingGraph = <<>>
        /\ DOMAIN SegmentOccupations = {} /\ DOMAIN NodeOccupations = {}
        /\ \A i \in 1..Len(plans) :
              plans[i].status = "FAILED_NO_PATH" /\ plans[i].path = <<>>
        /\ pc \in {"build", "snap", "plan", "done"}
        /\ pc = "done" =>
              \A r \in 1..Len(vehicleRequests) : PlansOf(vehicleRequests[r].id) # {}

C7_Witness ==
    /\ pc = "done"
    /\ allRoadFeatures = MapNoRoad
    /\ Len(vehicleRequests) = MaxVehicles
    /\ Len(plans) = MaxVehicles
    /\ \A i \in 1..Len(vehicleRequests) : vehicleRequests[i].speed > 0

\* The vehicle ids holding a reservation.
ReservingIds ==
    UNION {{SegmentOccupations[k][i].vehicleId : i \in 1..Len(SegmentOccupations[k])} :
              k \in DOMAIN SegmentOccupations}
    \cup UNION {{NodeOccupations[k][i].vehicleId : i \in 1..Len(NodeOccupations[k])} :
                   k \in DOMAIN NodeOccupations}

\* C8: a request with speed <= 0 always yields FAILED_NO_PATH with an empty
\* path, also when its snapped start and end are the same node; it adds
\* nothing to the reservation table; and the other requests are still
\* planned: each has its plan, a SUCCESS one when its snapped start and end
\* are joined in the working graph.
C8_NonPositiveSpeedFails ==
    \A r \in 1..Len(vehicleRequests) :
        vehicleRequests[r].speed <= 0 =>
            /\ vehicleRequests[r].id \notin ReservingIds
            /\ \A p \in PlansOf(vehicleRequests[r].id) :
                  plans[p].status = "FAILED_NO_PATH" /\ plans[p].path = <<>>
            /\ pc = "done" =>
                  /\ PlansOf(vehicleRequests[r].id) # {}
                  /\ \A i \in 1..Len(vehiclesWithSnappedNodes) :
                        LET v == vehiclesWithSnappedNodes[i]
                        IN  /\ PlansOf(v.id) # {}
                            /\ (v.speed > 0 /\ Connected(workingGraph, v.effectiveStartNodeStr,
                                                         v.effectiveEndNodeStr))
                               => \A p \in PlansOf(v.id) : plans[p].status = "SUCCESS"

\* A stationary vehicle whose start and end snap to the same node is planned
\* first and fails; the vehicle planned after it succeeds.
C8_Witness ==
    /\ pc = "done"
    /\ Len(vehiclesWithSnappedNodes) = 2
    /\ vehiclesWithSnappedNodes[1].speed <= 0
    /\ vehiclesWithSnappedNodes[1].effectiveStartNodeStr
           = vehiclesWithSnappedNodes[1].effectiveEndNodeStr
    /\ Len(plans) = 2
    /\ plans[1].status = "FAILED_NO_PATH"
    /\ plans[2].status = "SUCCESS"
    /\ Len(plans[2].path) >= 2

RECURSIVE PathLengthFrom(_, _, _)
\* The summed edge weight of a timed path of the graph.
PathLengthFrom(g, path, i) ==
    IF i >= Len(path) THEN 0
    ELSE Weight(g, path[i].nodeStr, path[i + 1].nodeStr) + PathLengthFrom(g, path, i + 1)

NoReservations == DOMAIN SegmentOccupations = {} /\ DOMAIN NodeOccupations = {}

\* C9: with an empty reservation table A_star_time_aware returns a shortest
\* path of the working graph: a path is returned exactly when dijkstra finds
\* one between the same two nodes, its summed edge length is the distance
\* dijkstra finds, and its total time is that length divided by the speed.
C9_ShortestPathOnEmptyTable ==
    (pc = "record" /\ NoReservations
        /\ vehiclesWithSnappedNodes[vehicleIndex].speed > 0) =>
        LET v == vehiclesWithSnappedNodes[vehicleIndex]
            found == dijkstra(workingGraph, v.effectiveStartNodeStr, v.effectiveEndNodeStr)
            shortest == dijkstraSearch(workingGraph, v.effectiveStartNodeStr,
                                       v.effectiveEndNodeStr).distances[v.effectiveEndNodeStr]
        IN  IF timedNodePath = <<>> THEN found = <<>>
            ELSE LET path == timedNodePath[1]
                 IN  /\ found # <<>>
                     /\ PathLengthFrom(workingGraph, path, 1) = shortest
                     /\ path[Len(path)].time - path[1].time = TravelTime(shortest, v.speed)

\* The first vehicle of a fleet takes the three-hop route of MapBypass.
C9_Witness ==
    /\ pc = "record"
    /\ NoReservations
    /\ allRoadFeatures = MapBypass
    /\ vehicleIndex = 1
    /\ Len(vehiclesWithSnappedNodes) = 2
    /\ timedNodePath # <<>>
    /\ Len(timedNodePath[1]) = 4

\* ------------------------------------------------ claims about the graph
\* Twice the signed area of the triangle a, b, c.
Orient(a, b, c) == (b.lat - a.lat) * (c.lng - a.lng) - (b.lng - a.lng) * (c.lat - a.lat)

Sign(x) == IF x > 0 THEN 1 ELSE IF x < 0 THEN -1 ELSE 0

\* c lies in the bounding box of a and b.
InBox(a, b, c) ==
    /\ Min(a.lat, b.lat) <= c.lat /\ c.lat <= Max(a.lat, b.lat)
    /\ Min(a.lng, b.lng) <= c.lng /\ c.lng <= Max(a.lng, b.lng)

\* The closed segments a-b and c-d have a point in common.
SegmentsMeet(a, b, c, d) ==
    LET o1 == Sign(Orient(a, b, c))
        o2 == Sign(Orient(a, b, d))
        o3 == Sign(Orient(c, d, a))
        o4 == Sign(Orient(c, d, b))
    IN  \/ o1 # o2 /\ o3 # o4
        \/ o1 = 0 /\ InBox(a, b, c)
        \/ o2 = 0 /\ InBox(a, b, d)
        \/ o3 = 0 /\ InBox(c, d, a)
        \/ o4 = 0 /\ InBox(c, d, b)

\* The directed edges of a graph, as pairs of node keys.
EdgePairs(g) ==
    UNION {{<<g[i].key, g[i].edges[j].to>> : j \in 1..Len(g[i].edges)} : i \in 1..Len(g)}

\* C11: after buildGraph no two edges of the graph cross except at a node
\* that is an endpoint of both: two edges with no endpoint in common have no
\* point in common.  Refuted under SpecGraph: of two roads crossing the same
\* segment, the second finds the segment's edge already split and is not
\* joined to it (GeoDouble).
C11_EdgesCrossOnlyAtNodes ==
    (pc = "project" /\ requestIndex = 1) =>
        \A e1, e2 \in EdgePairs(workingGraph) :
            {e1[1], e1[2]} \cap {e2[1], e2[2]} = {} =>
                ~SegmentsMeet(stringToLatLng(e1[1]), stringToLatLng(e1[2]),
                              stringToLatLng(e2[1]), stringToLatLng(e2[2]))

\* ------------------------------------ claims about the conflict estimator
\* The reservations of other vehicles on segment {u, v}, recorded in
\* direction v -> u, that overlap the traversal u -> v started at dep.
HeadOnReservations(res, g, u_str, v_str, dep, vehicleInfo) ==
    LET list == MapGetList(res.segmentOccupations, SegmentKey(u_str, v_str))
        tailExits == dep + TravelTime(Weight(g, u_str, v_str) + vehicleInfo.length,
                                      vehicleInfo.speed)
    IN  {i \in 1..Len(list) :
            /\ list[i].vehicleId # vehicleInfo.id
            /\ list[i].nodeA_str = v_str /\ list[i].nodeB_str = u_str
            /\ Max(dep, list[i].startTime) < Min(tailExits, list[i].endTime)}

\* HUGE_PENALTY / 1000 seconds, in ticks.
HeadOnPenalty == Seconds(HUGE_PENALTY \div 1000)

\* C12: when the candidate traversal u -> v of the vehicle being planned
\* overlaps in time a reservation of another vehicle on the same segment
\* recorded in direction v -> u, the estimator's result for the step is at
\* least HUGE_PENALTY / 1000 seconds; and a returned path that has such a hop
\* has a total time of at least its free-flow time plus that amount.
C12_HeadOnPenalty ==
    /\ (pc = "astar" /\ lowestFScore(openSet) # 0
            /\ vehiclesWithSnappedNodes[vehicleIndex].speed > 0) =>
          LET vehicleInfo == vehiclesWithSnappedNodes[vehicleIndex]
              u_item == openSet[lowestFScore(openSet)]
              neighbors == GraphGet(workingGraph, u_item.nodeStr)
          IN  \A j \in 1..Len(neighbors) :
                  HeadOnReservations(globalReservations, workingGraph, u_item.nodeStr,
                                     neighbors[j].to, u_item.currentTimeAtNode,
                                     vehicleInfo) # {}
                  => calculateConflictPenalty_WithEstimatedDelay(
                         u_item.nodeStr, neighbors[j].to, u_item.currentTimeAtNode,
                         u_item.currentTimeAtNode
                             + TravelTime(neighbors[j].w, vehicleInfo.speed),
                         vehicleInfo.id, vehicleInfo.length, vehicleInfo.speed,
                         globalReservations, workingGraph) >= HeadOnPenalty
    /\ (pc = "record" /\ timedNodePath # <<>>) =>
          LET vehicleInfo == vehiclesWithSnappedNodes[vehicleIndex]
              path == timedNodePath[1]
          IN  \A i \in 1..(Len(path) - 1) :
                  HeadOnReservations(globalReservations, workingGraph, path[i].nodeStr,
                                     path[i + 1].nodeStr, path[i].time, vehicleInfo) # {}
                  => path[Len(path)].time - path[1].time >=
                         TravelTime(PathLengthFrom(workingGraph, path, 1), vehicleInfo.speed)
                         + HeadOnPenalty

\* The later vehicle takes a segment against a reservation made the other way.
C12_Witness ==
    /\ pc = "record"
    /\ timedNodePath # <<>>
    /\ \E i \in 1..(Len(timedNodePath[1]) - 1) :
          HeadOnReservations(globalReservations, workingGraph, timedNodePath[1][i].nodeStr,
                             timedNodePath[1][i + 1].nodeStr, timedNodePath[1][i].time,
                             vehiclesWithSnappedNodes[vehicleIndex]) # {}

\* The reservations of other vehicles on node v that overlap the window
\* [arrival, arrival + NODE_CLEARANCE_TIME_SECONDS].
NodeConflicts(res, v_str, arrival, currentVehicleId) ==
    LET list == MapGetList(res.nodeOccupations, v_str)
    IN  {i \in 1..Len(list) :
            /\ list[i].vehicleId # currentVehicleId
            /\ Max(arrival, list[i].entryTime)
                   < Min(arrival + Seconds(NODE_CLEARANCE_TIME_SECONDS), list[i].exitTime)}

\* C13: when the window [arrival, arrival + NODE_CLEARANCE_TIME] of the
\* vehicle being planned at a node v, arrival being the time it would reach v
\* over the hop u -> v without waiting, overlaps the node occupation of a
\* vehicle planned earlier, the time planned for v is not before that
\* occupation's exit time: on every step A* evaluates the delay covers the
\* wait, and on every hop of a returned path the time of v is >= the exit time.
C13_ArrivalAfterNodeExit ==
    /\ (pc = "astar" /\ lowestFScore(openSet) # 0
            /\ vehiclesWithSnappedNodes[vehicleIndex].speed > 0) =>
          LET vehicleInfo == vehiclesWithSnappedNodes[vehicleIndex]
              u_item == openSet[lowestFScore(openSet)]
              neighbors == GraphGet(workingGraph, u_item.nodeStr)
          IN  \A j \in 1..Len(neighbors) :
                  LET arrival == u_item.currentTimeAtNode
                                     + TravelTime(neighbors[j].w, vehicleInfo.speed)
                      list == MapGetList(NodeOccupations, neighbors[j].to)
                  IN  \A c \in NodeConflicts(globalReservations, neighbors[j].to, arrival,
                                             vehicleInfo.id) :
                          arrival + calculateConflictPenalty_WithEstimatedDelay(
                                        u_item.nodeStr, neighbors[j].to,
                                        u_item.currentTimeAtNode, arrival, vehicleInfo.id,
                                        vehicleInfo.length, vehicleInfo.speed,
                                        globalReservations, workingGraph)
                              >= list[c].exitTime
    /\ (pc = "record" /\ timedNodePath # <<>>) =>
          LET vehicleInfo == vehiclesWithSnappedNodes[vehicleIndex]
              path == timedNodePath[1]
          IN  \A i \in 1..(Len(path) - 1) :
                  LET arrival == path[i].time
                                     + TravelTime(Weight(workingGraph, path[i].nodeStr,
                                                         path[i + 1].nodeStr),
                                                  vehicleInfo.speed)
                      list == MapGetList(NodeOccupations, path[i + 1].nodeStr)
                  IN  \A c \in NodeConflicts(globalReservations, path[i + 1].nodeStr,
                                             arrival, vehicleInfo.id) :
                          path[i + 1].time >= list[c].exitTime

\* Two vehicles cross the intersection of MapCross; the second would reach
\* it inside the first one's occupation.
C13_Witness ==
    /\ pc = "record"
    /\ allRoadFeatures = MapCross
    /\ timedNodePath # <<>>
    /\ Len(timedNodePath[1]) = 3
    /\ Len(GraphGet(workingGraph, timedNodePath[1][2].nodeStr)) = 4
    /\ NodeConflicts(globalReservations, timedNodePath[1][2].nodeStr,
                     timedNodePath[1][1].time
                         + TravelTime(Weight(workingGraph, timedNodePath[1][1].nodeStr,
                                             timedNodePath[1][2].nodeStr),
                                      vehiclesWithSnappedNodes[vehicleIndex].speed),
                     vehiclesWithSnappedNodes[vehicleIndex].id) # {}

\* ------------------------------------------------ claims about the paths
\* The snapped vehicle of an id.
SnappedVehicle(id) ==
    vehiclesWithSnappedNodes[CHOOSE i \in 1..Len(vehiclesWithSnappedNodes) :
                                 vehiclesWithSnappedNodes[i].id = id]

\* A raw coordinate that is not the position of its effective node.
OffGraph(position, effectiveStr) == ~arePointsEqual(position, stringToLatLng(effectiveStr))

\* C14: every SUCCESS path is a simple path of the working graph from the
\* vehicle's effective start node to its effective end node: first node the
\* start projection, last node the end projection, consecutive nodes joined
\* by an edge, no node twice, every timed node at the position of its graph
\* node, and a raw origin or destination that is off the graph not on the path.
C14_SimplePathBetweenProjections ==
    \A p \in 1..Len(plans) :
        plans[p].status = "SUCCESS" =>
            LET path == plans[p].path
                v == SnappedVehicle(plans[p].vehicleId)
            IN  /\ path[1].nodeStr = v.effectiveStartNodeStr
                /\ path[Len(path)].nodeStr = v.effectiveEndNodeStr
                /\ \A i \in 1..(Len(path) - 1) :
                      HasEdge(workingGraph, path[i].nodeStr, path[i + 1].nodeStr)
                /\ \A i, j \in 1..Len(path) : i # j => path[i].nodeStr # path[j].nodeStr
                /\ \A i \in 1..Len(path) :
                      /\ GraphHas(workingGraph, path[i].nodeStr)
                      /\ path[i].latlng = stringToLatLng(path[i].nodeStr)
                      /\ OffGraph(v.startPosition, v.effectiveStartNodeStr)
                             => path[i].latlng # v.startPosition
                      /\ OffGraph(v.endPosition, v.effectiveEndNodeStr)
                             => path[i].latlng # v.endPosition

\* A vehicle starting off the road is planned from its projection.
C14_Witness ==
    /\ pc = "done"
    /\ \E p \in 1..Len(plans) :
          /\ plans[p].status = "SUCCESS"
          /\ Len(plans[p].path) >= 2
          /\ RequestOf(plans[p].vehicleId).startPosition = PosOff
          /\ plans[p].path[1].latlng # PosOff

\* The table holding only the reservations of one vehicle's path.
OwnReservations(vehicleInfo, path) ==
    reservePathFrom([segmentOccupations |-> EmptyMap, nodeOccupations |-> EmptyMap],
                    vehicleInfo, path, 1)

\* C15: the estimator ignores every reservation of the vehicle it is called
\* for: every hop of a produced path, evaluated at the path's own times
\* against the table of that vehicle's own reservations, costs 0.
C15_NoSelfConflict ==
    \A p \in 1..Len(plans) :
        plans[p].status = "SUCCESS" =>
            LET path == plans[p].path
                v == SnappedVehicle(plans[p].vehicleId)
            IN  \A i \in 1..(Len(path) - 1) :
                    calculateConflictPenalty_WithEstimatedDelay(
                        path[i].nodeStr, path[i + 1].nodeStr, path[i].time,
                        path[i].time + TravelTime(Weight(workingGraph, path[i].nodeStr,
                                                         path[i + 1].nodeStr), v.speed),
                        v.id, v.length, v.speed, OwnReservations(v, path), workingGraph) = 0

\* A path of three hops, whose own reservations overlap its own traversals.
C15_Witness ==
    /\ pc = "done"
    /\ \E p \in 1..Len(plans) :
          /\ plans[p].status = "SUCCESS"
          /\ Len(plans[p].path) = 4
          /\ DOMAIN OwnReservations(SnappedVehicle(plans[p].vehicleId),
                                    plans[p].path).segmentOccupations # {}

\* ------------------------------------- claims about the graph, continued
\* The permutations of 1..n.
RecordOrders(n) == {f \in [1..n -> 1..n] : \A i, j \in 1..n : i # j => f[i] # f[j]}

\* The undirected content of a graph: its node keys and its weighted edges.
NodeSet(g) == GraphKeys(g)

EdgeSet(g) ==
    UNION {{<<g[i].key, g[i].edges[j].to, g[i].edges[j].w>> : j \in 1..Len(g[i].edges)} :
              i \in 1..Len(g)}

\* The graph of Step 3 run on the intersection records taken in the order f.
buildGraphInOrder(roads, f) ==
    LET rs == processedRoads(roads)
        recs == intersectionPointsToAdd(rs)
    IN  materializeFrom(seedGraph(rs), [i \in 1..Len(recs) |-> recs[f[i]]], 1)

\* C16: the graph buildGraph produces does not depend on the order in which
\* the intersection records are processed: every permutation of the records
\* gives the same nodes and the same edges.  Refuted under SpecGraph: with
\* two records on one segment, the record processed first is the one that
\* splits it (GeoDouble).
C16_IntersectionOrderIrrelevant ==
    (pc = "project" /\ requestIndex = 1) =>
        \A f \in RecordOrders(Len(intersectionPointsToAdd(processedRoads(allRoadFeatures)))) :
            LET g == buildGraphInOrder(allRoadFeatures, f)
            IN  NodeSet(g) = NodeSet(workingGraph) /\ EdgeSet(g) = EdgeSet(workingGraph)

\* The directed edges of a graph without their weights.
Links(g) == {<<e[1], e[2]>> : e \in EdgeSet(g)}

\* The nearest point falls inside an edge and its key is a new node.
SplitsEdge(g, info) == ~info.onExistingNode /\ ~GraphHas(g, info.pointStr)

\* g2 is g with edge (A,B) replaced by (A,P) and (P,B), weights summing to
\* the weight of (A,B) within tol, and nothing else changed.
EdgeSplit(g, g2, A, B, P, tol) ==
    /\ HasEdge(g, A, B) /\ HasEdge(g, B, A)
    /\ NodeSet(g2) = NodeSet(g) \cup {P}
    /\ Links(g2) = (Links(g) \ {<<A, B>>, <<B, A>>}) \cup {<<A, P>>, <<P, A>>, <<P, B>>, <<B, P>>}
    /\ \A e \in EdgeSet(g) : <<e[1], e[2]>> \notin {<<A, B>>, <<B, A>>} => e \in EdgeSet(g2)
    /\ Weight(g2, A, P) = Weight(g2, P, A) /\ Weight(g2, P, B) = Weight(g2, B, P)
    /\ Abs(Weight(g2, A, P) + Weight(g2, P, B) - Weight(g, A, B)) <= tol

ScanBefore(c, d) == c[1] < d[1] \/ (c[1] = d[1] /\ c[2] < d[2])

SameSegment(g, c, d) ==
    {g[c[1]].key, g[c[1]].edges[c[2]].to} = {g[d[1]].key, g[d[1]].edges[d[2]].to}

EdgePlaces(g) == UNION {{<<i, j>> : j \in 1..Len(g[i].edges)} : i \in 1..Len(g)}

SegmentCandidates(g) ==
    {c \in EdgePlaces(g) :
        /\ g[c[1]].edges[c[2]].to # g[c[1]].key
        /\ \A d \in EdgePlaces(g) : ScanBefore(d, c) => ~SameSegment(g, c, d)}

NodeCandidates(g) == {<<i, 0>> : i \in 1..Len(g)}

CandidatePoint(g, target, c) ==
    IF c[2] = 0 THEN stringToLatLng(g[c[1]].key)
    ELSE projectPointOnLineSegment(stringToLatLng(g[c[1]].key),
                                   stringToLatLng(g[c[1]].edges[c[2]].to), target)

CandidateDistance(g, target, c) == calculateDistance(target, CandidatePoint(g, target, c))

\* The projection onto the segment is neither of its end nodes.
InteriorCandidate(g, target, c) ==
    /\ c[2] # 0
    /\ ~arePointsEqual(CandidatePoint(g, target, c), stringToLatLng(g[c[1]].key))
    /\ ~arePointsEqual(CandidatePoint(g, target, c), stringToLatLng(g[c[1]].edges[c[2]].to))

Nearest(g, target) ==
    {c \in NodeCandidates(g) \cup SegmentCandidates(g) :
        \A d \in NodeCandidates(g) \cup SegmentCandidates(g) :
            CandidateDistance(g, target, c) <= CandidateDistance(g, target, d)}

\* The result names candidate c.
ReturnsCandidate(g, info, c) ==
    IF c[2] = 0
    THEN info.segmentNodes = <<g[c[1]].key, g[c[1]].key>> /\ info.onExistingNode
    ELSE info.segmentNodes = <<g[c[1]].key, g[c[1]].edges[c[2]].to>>

\* C18 (as stated): when a node and a point inside a segment are both at the
\* minimal distance from the target the node is returned, and among segments
\* at the minimal distance the first one visited is returned.
C18_NodeBeatsSegment ==
    pc = "project" =>
        \A target \in ProjectionTargets :
            LET g == workingGraph
                near == Nearest(g, target)
                nearest == findNearestPointOnGraph(target, g)
            IN  nearest # <<>> =>
                    /\ ((\E c \in near : c[2] = 0) /\ (\E c \in near : InteriorCandidate(g, target, c)))
                           => \E c \in near : c[2] = 0 /\ ReturnsCandidate(g, nearest[1], c)
                    /\ (\A c \in near : c[2] # 0)
                           => \E c \in near : /\ ReturnsCandidate(g, nearest[1], c)
                                              /\ \A d \in near : d = c \/ ScanBefore(c, d)

\* C18 (amended): the candidate returned is the first one in scan order at the
\* minimal distance, node or segment alike: a node wins over the segments
\* scanned after it, a segment scanned earlier wins over the node, and among
\* segments the first one visited wins.
C18_FirstNearestCandidateWins ==
    pc = "project" =>
        \A target \in ProjectionTargets :
            LET g == workingGraph
                near == Nearest(g, target)
                nearest == findNearestPointOnGraph(target, g)
            IN  nearest # <<>> =>
                    \E c \in near : /\ ReturnsCandidate(g, nearest[1], c)
                                    /\ \A d \in near : d = c \/ ScanBefore(c, d)

\* A tie the two statements settle differently: a point inside a segment
\* scanned first and a node scanned later are both nearest.
C18_Witness ==
    /\ pc = "project"
    /\ \E target \in ProjectionTargets :
          LET g == workingGraph
              near == Nearest(g, target)
          IN  \E c, d \in near :
                  /\ c[2] = 0 /\ InteriorCandidate(g, target, d) /\ ScanBefore(d, c)
                  /\ \A e \in near : e = d \/ ScanBefore(d, e)
                  /\ ReturnsCandidate(g, findNearestPointOnGraph(target, g)[1], d)

\* ------------------------- claims about the conflict estimator, continued
\* The reservations of other vehicles on segment {u, v}, in either
\* direction, that overlap the traversal u -> v started at dep.
SegmentConflicts(res, g, u_str, v_str, dep, vehicleInfo) ==
    LET list == MapGetList(res.segmentOccupations, SegmentKey(u_str, v_str))
        tailExits == dep + TravelTime(Weight(g, u_str, v_str) + vehicleInfo.length,
                                      vehicleInfo.speed)
    IN  {i \in 1..Len(list) :
            /\ list[i].vehicleId # vehicleInfo.id
            /\ Max(dep, list[i].startTime) < Min(tailExits, list[i].endTime)}

SetMax(S) == CHOOSE x \in S : \A y \in S : y <= x

\* The waits of the step u -> v: for each overlapping segment reservation its
\* end time less the departure, plus the head-on term when it runs v -> u;
\* for each overlapping node reservation its exit time less the arrival.
StepWaits(res, g, u_str, v_str, dep, arrival, vehicleInfo) ==
    LET segs == MapGetList(res.segmentOccupations, SegmentKey(u_str, v_str))
        nodes == MapGetList(res.nodeOccupations, v_str)
    IN  {segs[i].endTime - dep
             + (IF segs[i].nodeA_str = v_str /\ segs[i].nodeB_str = u_str
                THEN HeadOnPenalty ELSE 0) :
             i \in SegmentConflicts(res, g, u_str, v_str, dep, vehicleInfo)}
        \cup {nodes[i].exitTime - arrival :
                 i \in NodeConflicts(res, v_str, arrival, vehicleInfo.id)}

\* C19: on every step u -> v that A* evaluates, the estimator returns 0 when
\* no reservation of another vehicle overlaps the traversal of the segment or
\* the clearance window at v, and otherwise the largest wait among the
\* overlapping reservations (with the head-on term for reservations in the
\* opposite direction) plus INCONVENIENCE_PENALTY_SECONDS; a reservation in
\* the same direction counts like any other.
C19_EstimatorValue ==
    (pc = "astar" /\ lowestFScore(openSet) # 0
        /\ vehiclesWithSnappedNodes[vehicleIndex].speed > 0) =>
        LET vehicleInfo == vehiclesWithSnappedNodes[vehicleIndex]
            u_item == openSet[lowestFScore(openSet)]
            neighbors == GraphGet(workingGraph, u_item.nodeStr)
        IN  \A j \in 1..Len(neighbors) :
                LET dep == u_item.currentTimeAtNode
                    arrival == dep + TravelTime(neighbors[j].w, vehicleInfo.speed)
                    waits == StepWaits(globalReservations, workingGraph, u_item.nodeStr,
                                       neighbors[j].to, dep, arrival, vehicleInfo)
                IN  calculateConflictPenalty_WithEstimatedDelay(
                        u_item.nodeStr, neighbors[j].to, dep, arrival, vehicleInfo.id,
                        vehicleInfo.length, vehicleInfo.speed, globalReservations,
                        workingGraph)
                    = IF waits = {} THEN 0
                      ELSE SetMax(waits) + Seconds(INCONVENIENCE_PENALTY_SECONDS)

\* A* evaluates a step whose segment is reserved by another vehicle in the
\* same direction at an overlapping time, and a step with no conflict at all.
C19_Witness ==
    /\ pc = "astar" /\ lowestFScore(openSet) # 0
    /\ vehiclesWithSnappedNodes[vehicleIndex].speed > 0
    /\ LET vehicleInfo == vehiclesWithSnappedNodes[vehicleIndex]
           u_item == openSet[lowestFScore(openSet)]
           neighbors == GraphGet(workingGraph, u_item.nodeStr)
       IN  /\ \E j \in 1..Len(neighbors) :
                 /\ SegmentConflicts(globalReservations, workingGraph, u_item.nodeStr,
                                     neighbors[j].to, u_item.currentTimeAtNode,
                                     vehicleInfo) # {}
                 /\ HeadOnReservations(globalReservations, workingGraph, u_item.nodeStr,
                                       neighbors[j].to, u_item.currentTimeAtNode,
                                       vehicleInfo) = {}
           /\ \E j \in 1..Len(neighbors) :
                 StepWaits(globalReservations, workingGraph, u_item.nodeStr,
                           neighbors[j].to, u_item.currentTimeAtNode,
                           u_item.currentTimeAtNode
                               + TravelTime(neighbors[j].w, vehicleInfo.speed),
                           vehicleInfo) = {}

\* ------------------------------------- claims about the reservations made
\* The occupations the claim describes for the hop path[i] -> path[i + 1]
\* and for the node path[i].
HopOccupation(vehicleInfo, path, i) ==
    [vehicleId |-> vehicleInfo.id,
     nodeA_str |-> path[i].nodeStr,
     nodeB_str |-> path[i + 1].nodeStr,
     startTime |-> path[i].time,
     endTime |-> path[i].time
                 + ((calculateDistance(path[i].latlng, path[i + 1].latlng)
                     + vehicleInfo.length) * TimeScale) \div vehicleInfo.speed]

StopOccupation(vehicleInfo, path, i) ==
    [vehicleId |-> vehicleInfo.id,
     nodeStr |-> path[i].nodeStr,
     entryTime |-> path[i].time - Seconds(SAFETY_TIME_WINDOW_NODE_SECONDS) \div 2,
     exitTime |-> path[i].time + Seconds(NODE_CLEARANCE_TIME_SECONDS)
                  + Seconds(SAFETY_TIME_WINDOW_NODE_SECONDS) \div 2]

\* The list new is the list old followed by the members of added filed under k.
AppendedUnder(old, new, added, k, IsUnder(_, _)) ==
    new = old \o SelectSeq(added, LAMBDA o : IsUnder(o, k))

UnderSegment(o, k) == k = (IF StrLess(o.nodeA_str, o.nodeB_str)
                           THEN <<o.nodeA_str, o.nodeB_str>>
                           ELSE <<o.nodeB_str, o.nodeA_str>>)

UnderNode(o, k) == k = o.nodeStr

\* C20: recording a SUCCESS path of n >= 2 timed nodes adds to the table
\* exactly n - 1 segment occupations, one per hop A -> B, filed under the
\* sorted key of {A, B}, with direction A -> B, start A.time and end
\* A.time + (d(A,B) + length) / speed, and exactly n node occupations, one
\* per path node, with entry time - window/2 and exit
\* time + clearance + window/2; nothing else in the table changes.
C20_ReservationsOfAPath ==
    [][(pc = "record" /\ timedNodePath # <<>> /\ Len(timedNodePath[1]) >= 2) =>
          LET vehicleInfo == vehiclesWithSnappedNodes[vehicleIndex]
              path == timedNodePath[1]
              n == Len(path)
              hops == [i \in 1..(n - 1) |-> HopOccupation(vehicleInfo, path, i)]
              stops == [i \in 1..n |-> StopOccupation(vehicleInfo, path, i)]
              old == globalReservations
              new == globalReservations'
          IN  /\ plans'[Len(plans')].status = "SUCCESS"
              /\ DOMAIN new.segmentOccupations =
                     DOMAIN old.segmentOccupations
                         \cup {SegmentKey(path[i].nodeStr, path[i + 1].nodeStr) : i \in 1..(n - 1)}
              /\ \A k \in DOMAIN new.segmentOccupations :
                     AppendedUnder(MapGetList(old.segmentOccupations, k),
                                   new.segmentOccupations[k], hops, k, UnderSegment)
              /\ DOMAIN new.nodeOccupations =
                     DOMAIN old.nodeOccupations \cup {path[i].nodeStr : i \in 1..n}
              /\ \A k \in DOMAIN new.nodeOccupations :
                     AppendedUnder(MapGetList(old.nodeOccupations, k),
                                   new.nodeOccupations[k], stops, k, UnderNode)]_vars

\* The plan just recorded is a SUCCESS through an intermediate node, made by
\* the second vehicle on top of the reservations of the first.
C20_Witness ==
    /\ pc = "plan"
    /\ Len(plans) = 2
    /\ plans[1].status = "SUCCESS"
    /\ plans[2].status = "SUCCESS"
    /\ Len(plans[2].path) >= 3
    /\ \E k \in DOMAIN globalReservations.nodeOccupations :
          Len(globalReservations.nodeOccupations[k]) >= 2

\* ------------------------------------------- claims about the table's frame
IsPrefix(s, t) == Len(s) <= Len(t) /\ SubSeq(t, 1, Len(s)) = s

\* Every list of m is kept, as it was, at the head of its list in m2.
MapExtends(m, m2) ==
    \A k \in DOMAIN m : k \in DOMAIN m2 /\ IsPrefix(m[k], m2[k])

\* The entries m2 has and m has not.
MapAdded(m, m2) ==
    UNION {{m2[k][i] : i \in (Len(MapGetList(m, k)) + 1)..Len(m2[k])} : k \in DOMAIN m2}

\* C21: every step of planAllVehicleRoutes keeps the occupations already in
\* the table, unaltered and in place; the table changes only on the step that
\* pushes a SUCCESS plan, and then only by occupations of that plan's
\* vehicle; the step that pushes a FAILED_NO_PATH plan leaves it unchanged.
C21_TableOnlyGrowsByOwnOccupations ==
    [][LET old == globalReservations
           new == globalReservations'
           pushed == plans'[Len(plans')]
       IN  /\ MapExtends(old.segmentOccupations, new.segmentOccupations)
           /\ MapExtends(old.nodeOccupations, new.nodeOccupations)
           /\ new # old =>
                  /\ Len(plans') = Len(plans) + 1
                  /\ pushed.status = "SUCCESS"
                  /\ pc = "record"
                  /\ pushed.vehicleId = vehiclesWithSnappedNodes[vehicleIndex].id
                  /\ \A o \in MapAdded(old.segmentOccupations, new.segmentOccupations)
                              \cup MapAdded(old.nodeOccupations, new.nodeOccupations) :
                         o.vehicleId = pushed.vehicleId
           /\ (Len(plans') = Len(plans) + 1 /\ pushed.status = "FAILED_NO_PATH") => new = old
      ]_vars

\* A vehicle has failed after another reserved its path, and the table still
\* holds the first vehicle's occupations and no others.
C21_Witness ==
    /\ pc = "plan"
    /\ Len(plans) = 2
    /\ plans[1].status = "SUCCESS" /\ Len(plans[1].path) >= 2
    /\ plans[2].status = "FAILED_NO_PATH"
    /\ vehicleIndex = 3
    /\ globalReservations =
           reservePathFrom([segmentOccupations |-> EmptyMap, nodeOccupations |-> EmptyMap],
                           vehiclesWithSnappedNodes[1], plans[1].path, 1)

\* ----------------------------------------- claims about the search's end
\* The search of the vehicle being planned has left its loop.
LoopExited == pc = "astar_end"

GoalReachable ==
    Connected(workingGraph, vehiclesWithSnappedNodes[vehicleIndex].effectiveStartNodeStr,
              vehiclesWithSnappedNodes[vehicleIndex].effectiveEndNodeStr)

\* What holds when the loop is left, and of the value returned.
GoalPoppedMeansPath ==
    /\ LoopExited =>
          /\ finalGoalItem # <<>> =>
                 finalGoalItem[1].nodeStr
                     = vehiclesWithSnappedNodes[vehicleIndex].effectiveEndNodeStr
          /\ (GoalReachable /\ vehiclesWithSnappedNodes[vehicleIndex].speed > 0)
                 => finalGoalItem # <<>>
    /\ pc = "record" => (timedNodePath # <<>> <=> finalGoalItem # <<>>)

Searching == pc \in {"astar", "astar_end"}

\* C23: throughout a search every open-set entry has currentTimeAtNode equal
\* to the vehicle's start time plus its gScore, and its gScore is the gScore
\* recorded for its node; the first timed node of a returned path has the
\* request's start time and the last has the popped goal item's
\* currentTimeAtNode.
C23_OpenItemsCarryStartPlusG ==
    /\ Searching =>
          \A i \in 1..Len(openSet) :
              /\ openSet[i].currentTimeAtNode
                     = vehiclesWithSnappedNodes[vehicleIndex].startTime + openSet[i].gScore
              /\ openSet[i].nodeStr \in DOMAIN gScores
              /\ openSet[i].gScore = gScores[openSet[i].nodeStr]
    /\ (pc = "record" /\ timedNodePath # <<>>) =>
          LET path == timedNodePath[1]
          IN  /\ path[1].time = RequestOf(vehiclesWithSnappedNodes[vehicleIndex].id).startTime
              /\ path[Len(path)].time = finalGoalItem[1].currentTimeAtNode

\* A path whose time includes a conflict delay is about to be recorded.
C23_Witness ==
    /\ pc = "record" /\ timedNodePath # <<>>
    /\ Len(timedNodePath[1]) >= 2
    /\ timedNodePath[1][Len(timedNodePath[1])].time - timedNodePath[1][1].time >=
           TravelTime(PathLengthFrom(workingGraph, timedNodePath[1], 1),
                      vehiclesWithSnappedNodes[vehicleIndex].speed)
           + Seconds(INCONVENIENCE_PENALTY_SECONDS) - Len(timedNodePath[1])

\* ------------------------------------------ claims about the planning order
\* The occupations held by the table, as sets.
TableSegmentOccupations ==
    UNION {{SegmentOccupations[k][i] : i \in 1..Len(SegmentOccupations[k])} :
              k \in DOMAIN SegmentOccupations}

TableNodeOccupations ==
    UNION {{NodeOccupations[k][i] : i \in 1..Len(NodeOccupations[k])} :
              k \in DOMAIN NodeOccupations}

\* The vehicles planned before the one at place j, and the plan of a vehicle.
PlannedBefore(j) == {vehiclesWithSnappedNodes[i] : i \in 1..(j - 1)}

PlanOf(id) == plans[CHOOSE i \in 1..Len(plans) : plans[i].vehicleId = id]

PlannedHops(v) ==
    {HopOccupation(v, PlanOf(v.id).path, i) : i \in 1..(Len(PlanOf(v.id).path) - 1)}

PlannedStops(v) ==
    IF Len(PlanOf(v.id).path) < 2 THEN {}
    ELSE {StopOccupation(v, PlanOf(v.id).path, i) : i \in 1..Len(PlanOf(v.id).path)}

\* C24: vehicles are planned in ascending desired start time, ties in input
\* order; while a vehicle is planned the table holds exactly the occupations
\* of the vehicles before it in that order that were planned with SUCCESS, and
\* none of a vehicle planned after it.
C24_PlannedInPriorityOrder ==
    pc \in {"astar", "astar_end", "record"} =>
        /\ \A i, j \in 1..Len(vehiclesWithSnappedNodes) :
               i < j => Precedes(vehiclesWithSnappedNodes[i].id, vehiclesWithSnappedNodes[j].id)
        /\ \A v \in PlannedBefore(vehicleIndex) : PlansOf(v.id) # {}
        /\ TableSegmentOccupations
               = UNION {PlannedHops(v) :
                           v \in {w \in PlannedBefore(vehicleIndex) :
                                     PlanOf(w.id).status = "SUCCESS"}}
        /\ TableNodeOccupations
               = UNION {PlannedStops(v) :
                           v \in {w \in PlannedBefore(vehicleIndex) :
                                     PlanOf(w.id).status = "SUCCESS"}}
        /\ \A i \in vehicleIndex..Len(vehiclesWithSnappedNodes) :
               vehiclesWithSnappedNodes[i].id \notin ReservingIds

\* The second request starts before the first, is planned first and has
\* reserved its path; the first request is being planned against it.
C24_Witness ==
    /\ pc = "astar"
    /\ vehicleIndex = 2
    /\ RequestIndexOf(vehiclesWithSnappedNodes[1].id) > RequestIndexOf(vehiclesWithSnappedNodes[2].id)
    /\ TableSegmentOccupations # {}

\* --------------------------------------- claims about congestion at the start
\* The node occupations of other vehicles, planned before vehicle id, on the
\* node k whose window holds the time t.
WindowsHolding(id, k, t) ==
    {o \in TableNodeOccupations :
        /\ o.nodeStr = k
        /\ o.vehicleId # id
        /\ Precedes(o.vehicleId, id)
        /\ o.entryTime <= t /\ t < o.exitTime}

\* C25: when a vehicle's effective start node is, at its desired start time,
\* inside the node occupation window of a vehicle planned before it, its
\* SUCCESS plan does not have it on that node during that window.  Refuted:
\* the search stamps the start node with the start time and tests only the
\* node a hop arrives at.
C25_StartNodeCongestionHandled ==
    pc = "done" =>
        \A i \in 1..Len(plans) :
            (plans[i].status = "SUCCESS" /\ plans[i].vehicleId \in SnappedIds) =>
                LET v == SnappedVehicle(plans[i].vehicleId)
                IN  WindowsHolding(v.id, v.effectiveStartNodeStr, v.startTime) # {}
                    => \/ plans[i].path[1].nodeStr # v.effectiveStartNodeStr
                       \/ WindowsHolding(v.id, v.effectiveStartNodeStr, plans[i].path[1].time) = {}

\* ------------------------------------ claims about the span of a reservation
\* The segment occupations the table holds for the hop path[i] -> path[i + 1]
\* of vehicle id.
ReservedForHop(id, path, i) ==
    {o \in TableSegmentOccupations :
        /\ o.vehicleId = id
        /\ o.nodeA_str = path[i].nodeStr /\ o.nodeB_str = path[i + 1].nodeStr
        /\ o.startTime = path[i].time}

\* C26: for every hop A -> B of a SUCCESS path the segment occupation
\* reserved for the hop ends no earlier than the planned arrival of the front
\* at B, also when the cost of the hop included a conflict delay.  Refuted:
\* the end time is A.time + (d + length) / speed while B.time includes the
\* delay.
C26_ReservationCoversHop ==
    pc = "done" =>
        \A p \in 1..Len(plans) :
            plans[p].status = "SUCCESS" =>
                \A i \in 1..(Len(plans[p].path) - 1) :
                    /\ ReservedForHop(plans[p].vehicleId, plans[p].path, i) # {}
                    /\ \A o \in ReservedForHop(plans[p].vehicleId, plans[p].path, i) :
                           o.endTime >= plans[p].path[i + 1].time

\* ------------------------------------------ claims about the trip of no hop
\* The snapped vehicles whose origin and destination are the same graph node.
StayingVehicles ==
    {i \in 1..Len(vehiclesWithSnappedNodes) :
        /\ vehiclesWithSnappedNodes[i].effectiveStartNodeStr
               = vehiclesWithSnappedNodes[i].effectiveEndNodeStr
        /\ vehiclesWithSnappedNodes[i].speed > 0}

\* C27: a request with speed > 0 whose origin and destination snap to the
\* same node gets a SUCCESS plan of one timed node, that node at the
\* request's start time, with totalTimeSeconds 0, and holds no reservation.
C27_SameNodeTrip ==
    pc = "done" =>
        \A i \in StayingVehicles :
            LET v == vehiclesWithSnappedNodes[i]
            IN  /\ PlansOf(v.id) # {}
                /\ PlanOf(v.id).status = "SUCCESS"
                /\ Len(PlanOf(v.id).path) = 1
                /\ PlanOf(v.id).path[1].nodeStr = v.effectiveStartNodeStr
                /\ PlanOf(v.id).path[1].time = RequestOf(v.id).startTime
                /\ PlanOf(v.id).totalTimeSeconds = 0
                /\ v.id \notin ReservingIds

\* A vehicle that stays on a node was planned first, and a vehicle planned
\* after it leaves from that node at a time inside what would be its window.
C27_Witness ==
    /\ pc = "done"
    /\ 1 \in StayingVehicles
    /\ Len(vehiclesWithSnappedNodes) = 2
    /\ PlanOf(vehiclesWithSnappedNodes[2].id).status = "SUCCESS"
    /\ Len(PlanOf(vehiclesWithSnappedNodes[2].id).path) >= 2
    /\ \E j \in 1..Len(PlanOf(vehiclesWithSnappedNodes[2].id).path) :
          PlanOf(vehiclesWithSnappedNodes[2].id).path[j].nodeStr
              = vehiclesWithSnappedNodes[1].effectiveStartNodeStr

\* ------------------------------------------- claims about popped nodes
\* The heuristic and the edge weights satisfy the triangle inequality for the
\* vehicle being planned: h(u) <= travel time of (u, v) + h(v) on every edge.
ConsistentHeuristic ==
    LET v == vehiclesWithSnappedNodes[vehicleIndex]
        goal == stringToLatLng(v.effectiveEndNodeStr)
    IN  /\ v.speed > 0
        /\ \A e \in EdgeSet(workingGraph) :
               heuristic(stringToLatLng(e[1]), goal, v.speed)
                   <= TravelTime(e[3], v.speed) + heuristic(stringToLatLng(e[2]), goal, v.speed)

\* The nodes popped from the open set: reached, and no longer open.
PoppedNodes ==
    {k \in DOMAIN gScores :
        gScores[k] < Infinity /\ \A i \in 1..Len(openSet) : openSet[i].nodeStr # k}

\* The cost the search gives the hop path[i] -> path[i + 1] when it leaves
\* path[i] at the time stamped on it.
HopCostAtStampedTime(path, i, v) ==
    LET base == TravelTime(Weight(workingGraph, path[i].nodeStr, path[i + 1].nodeStr), v.speed)
    IN  base + calculateConflictPenalty_WithEstimatedDelay(
                   path[i].nodeStr, path[i + 1].nodeStr, path[i].time, path[i].time + base,
                   v.id, v.length, v.speed, globalReservations, workingGraph)

\* C28: with edge weights and heuristic satisfying the triangle inequality, a
\* node popped from the open set never has its gScore lowered afterwards and
\* is not opened again; and on a returned path the time of each node after
\* the first is the time of the node before it plus the cost of the hop
\* evaluated for a departure at that time.
C28_PoppedNodesAreFinal ==
    [][/\ (pc = "astar" /\ ConsistentHeuristic) =>
              \A k \in PoppedNodes :
                  /\ gScores'[k] = gScores[k]
                  /\ \A i \in 1..Len(openSet') : openSet'[i].nodeStr # k
       /\ (pc = "astar_end" /\ ConsistentHeuristic /\ timedNodePath' # <<>>) =>
              \A i \in 1..(Len(timedNodePath'[1]) - 1) :
                  timedNodePath'[1][i + 1].time =
                      timedNodePath'[1][i].time
                      + HopCostAtStampedTime(timedNodePath'[1], i,
                                             vehiclesWithSnappedNodes[vehicleIndex])
      ]_vars

\* A search with popped nodes has just relaxed a hop at a cost above its
\* travel time, on a graph where two routes lead to the goal.
C28_Witness ==
    /\ pc = "astar"
    /\ ConsistentHeuristic
    /\ Cardinality(PoppedNodes) >= 2
    /\ \E i \in 1..Len(openSet) :
          /\ openSet[i].parentStr # <<>>
          /\ openSet[i].gScore >
                 GScoreOf(gScores, openSet[i].parentStr[1])
                 + TravelTime(Weight(workingGraph, openSet[i].parentStr[1], openSet[i].nodeStr),
                              vehiclesWithSnappedNodes[vehicleIndex].speed)

\* ---------------------------------------------------------------- C29
\* The road graph is empty, or the snapped start node does not reach the
\* snapped end node along the edges of the working graph.
NoRoute ==
    \/ buildGraph(allRoadFeatures) = <<>>
    \/ ~Connected(workingGraph, effectiveStartNodeStr, effectiveEndNodeStr)

\* C29: findPath returns null exactly when start and end are not equal within
\* tolerance and either the road graph is empty or the snapped start node does
\* not reach the snapped end node in the working graph; in every other case
\* it returns a path of at least one point whose first point is start and
\* whose last point equals end within tolerance.
C29_FindPathNullExactly ==
    pc = "returned" =>
        IF ~arePointsEqual(start, end) /\ NoRoute THEN finalPath = <<>>
        ELSE /\ finalPath # <<>>
             /\ Len(finalPath[1]) >= 1
             /\ finalPath[1][1] = start
             /\ arePointsEqual(finalPath[1][Len(finalPath[1])], end)

\* findPath has returned null for two points snapped to different parts of a
\* road graph that is not empty.
C29_Witness ==
    /\ pc = "returned"
    /\ ~arePointsEqual(start, end)
    /\ buildGraph(allRoadFeatures) # <<>>
    /\ ~Connected(workingGraph, effectiveStartNodeStr, effectiveEndNodeStr)
    /\ finalPath = <<>>

\* findPath has returned a path along the roads between two different points
\* that are not graph nodes.
C29_WitnessRoute ==
    /\ pc = "returned"
    /\ ~arePointsEqual(start, end)
    /\ finalPath # <<>>
    /\ Len(finalPath[1]) >= 4

\* ---------------------------------------------------------------- C30
\* One operation applied to a feature list.
ApplyCall(features, call) ==
    IF call.op = "add" THEN withFeatureAdded(features, call.arg)
    ELSE IF call.op = "update" THEN withFeatureUpdated(features, call.arg)
    ELSE withoutFeature(features, call.arg.id)

RECURSIVE ApplyCallsFrom(_, _)
ApplyCallsFrom(features, i) ==
    IF i > Len(calls) THEN features
    ELSE ApplyCallsFrom(ApplyCall(features, calls[i]), i + 1)

\* The feature list with every call applied, in the order the calls were made.
FeaturesWithEveryCall == ApplyCallsFrom(getMapData(initialData).features, 1)

AllSavesCompleted == loaded /\ savesInFlight = <<>>

CallsMadeAfterLoad == \A i \in 1..Len(calls) : calls[i].loaded

\* C30: no lost update: whatever the interleaving of addFeature, updateFeature
\* and deleteFeature calls made once the stored data is loaded, once every
\* save has completed the stored feature list is the list with every one of
\* the operations applied.  Refuted under SpecStorage: a call made before the
\* save of the call before it has completed starts from the feature list
\* without that call's operation and saves over it.
C30_NoLostUpdate ==
    (pc = "mounted" /\ AllSavesCompleted /\ CallsMadeAfterLoad /\ calls # <<>>) =>
        /\ storedData # <<>>
        /\ storedData[1].features = FeaturesWithEveryCall

====
